---- MODULE Spec2Model ----
(***************************************************************************)
(* Decision core of DecentralizedAgent (rws_hm_llama3.py): the hypothesis  *)
(* bank, the post-duel pipeline of two_level_plan, subgoal planning and    *)
(* the memory of observed entity locations.                                *)
(*                                                                         *)
(* A Python dict is a TLA+ function whose domain is the dict's key set, so *)
(* "key in d" is  key \in DOMAIN d  and {} is the function with the empty  *)
(* domain.  A credibility v is held as the integer v * Scale, which is     *)
(* exact for as many updates as the deepest run makes.                     *)
(*                                                                         *)
(* The controller is a coroutine: one action of the model runs it from the *)
(* reply at one await to the next await (or to its return or raise), which *)
(* is what the single-threaded event loop executes without interleaving.   *)
(***************************************************************************)
EXTENDS Integers, Sequences, FiniteSets, TLC

VARIABLES
    pc,                      \* the await the controller is suspended at
    interaction_num,         \* self.interaction_num
    interaction_history,     \* self.interaction_history
    opponent_hypotheses,     \* self.opponent_hypotheses
    good_hypothesis_found,   \* self.good_hypothesis_found
    possible_opponent_strategy, \* self.possible_opponent_strategy
    next_inventories,        \* self.next_inventories
    tries,                   \* the local tries / counter of the running loop
    sorted_keys,             \* the local sorted_keys of two_level_plan
    inflight,                \* requests awaiting the reasoning service
    goal_and_plan,           \* what subgoal_module returned to the running call
    outcome,                 \* how the last controller run ended, and where
    onlyMalformed,           \* no accepted inference/strategy/negotiation reply yet
    memory_states,           \* self.memory_states
    now,                     \* the game step the caller's loop is at
    retrieved,               \* what the last retrieval was asked and returned
    action_plan,             \* self.action_plan
    subgoal_num,             \* self.subgoal_num
    all_actions,             \* self.all_actions
    pos,                     \* self.pos
    orientation,             \* self.orientation
    destination,             \* self.destination
    attributes,              \* the attributes of these that the agent has
    result,                  \* the last executor call: arguments and outcome
    sent                     \* what the LLM client was last called with, and for what

agentState ==
    <<interaction_num, interaction_history, opponent_hypotheses,
      good_hypothesis_found, possible_opponent_strategy, next_inventories>>

vars ==
    <<pc, interaction_num, interaction_history, opponent_hypotheses,
      good_hypothesis_found, possible_opponent_strategy, next_inventories,
      tries, sorted_keys, inflight, goal_and_plan, outcome, onlyMalformed,
      memory_states, now, retrieved, action_plan, subgoal_num, all_actions,
      pos, orientation, destination, attributes, result, sent>>

\* the controller's part of the state: what the memory operations leave alone
controller ==
    <<pc, agentState, tries, sorted_keys, inflight, goal_and_plan, outcome,
      onlyMalformed>>

\* the memory's part of the state: what the controller's steps leave alone
memory == <<memory_states, now, retrieved>>

\* the executor's part of the state: what both of them leave alone
executor ==
    <<action_plan, subgoal_num, all_actions, pos, orientation, destination,
      attributes, result>>

----------------------------------------------------------------------------
(* Bounds of the model *)

\* duels played when the service may answer anything
MaxDuels == 2
\* duels played when every answer is accepted and inferred inventories may tie
DeepDuels == 6
\* duels played when every answer is accepted and no inferred inventory ties
LongDuels == 9

(* Program constants *)

\* self.alpha = 0.3, as AlphaNum / Ten
AlphaNum == 3
Ten == 10
\* self.correct_guess_reward
correct_guess_reward == 1
\* self.good_hypothesis_thr = 0.7, as ThrNum / Ten
ThrNum == 7
\* self.top_k
top_k == 7
\* the retry bound of every loop: "tries < 15", "counter < 15"
RetryBound == 15

\* credibility v is stored as v * Scale: a hypothesis is scored at most once
\* in each duel after the one that created it
Scale == Ten ^ (LongDuels - 1)

----------------------------------------------------------------------------
(* Dicts *)

EmptyDict == [k \in {} |-> 0]

\* d.update(e) / d[k] = v : the keys of e override those of d
Update(d, e) == e @@ d

Resources == {"rock/yellow", "paper/purple", "scissors/blue"}

Inv(r, p, s) ==
    ("rock/yellow" :> r) @@ ("paper/purple" :> p) @@ ("scissors/blue" :> s)

\* DefaultNextInventories with a bug: the predicted inventory is left out
DefaultWithoutPrediction == [my_next_inventory |-> Inv(1, 1, 1)]

\* __init__, and both fallbacks of two_level_plan
DefaultNextInventories ==
    [my_next_inventory |-> Inv(1, 1, 1),
     predicted_opponent_next_inventory |-> Inv(1, 1, 1)]

----------------------------------------------------------------------------
(* Response texts.  A text is either prose without any braces, or prose    *)
(* around a brace-delimited blob; a blob is well-formed (an object) or not *)

Prose == [kind |-> "prose"]
Broken == [kind |-> "broken"]
Object(o) == [kind |-> "object", obj |-> o]

\* _parse_json_like_object: raises unless a blob is found and one of the
\* three parsers reads it
ParseRaised == [raised |-> TRUE]
_parse_json_like_object(text) ==
    IF text.kind = "object"
    THEN [raised |-> FALSE, value |-> text.obj]
    ELSE ParseRaised

----------------------------------------------------------------------------
(* HypothesisBank *)

Min(a, b) == IF a <= b THEN a ELSE b

\* max(d.keys()) of a non-empty dict with integer keys
MaxKey(d) == CHOOSE k \in DOMAIN d : \A j \in DOMAIN d : j <= k

\* sorted(keys, key=value, reverse=True): descending credibility; the sort is
\* stable, so equal credibilities stay in insertion order, which is key order
RECURSIVE SortedByValue(_, _)
SortedByValue(keys, bank) ==
    IF keys = {} THEN <<>>
    ELSE LET best == CHOOSE k \in keys : \A j \in keys :
                        \/ bank[k].value > bank[j].value
                        \/ bank[k].value = bank[j].value /\ k <= j
         IN <<best>> \o SortedByValue(keys \ {best}, bank)

\* seq[:n]
Prefix(seq, n) == SubSeq(seq, 1, Min(n, Len(seq)))

\* Keys2Eval with a bug: every hypothesis is evaluated
Keys2EvalAll(bank) ==
    LET latest_key == MaxKey(bank)
    IN SortedByValue(DOMAIN bank \ {latest_key}, bank) \o <<latest_key>>

\* keys2eval = sorted_keys[: self.top_k] + [latest_key]
Keys2Eval(bank) ==
    LET latest_key == MaxKey(bank)
    IN Prefix(SortedByValue(DOMAIN bank \ {latest_key}, bank), top_k)
           \o <<latest_key>>

\* max(inventory.values())
MaxValue(inventory) ==
    CHOOSE m \in {inventory[k] : k \in DOMAIN inventory} :
        \A k \in DOMAIN inventory : inventory[k] <= m

\* MaxItems with a bug: only one item with the maximum is collected
OneMaxItem(inventory) ==
    {CHOOSE k \in DOMAIN inventory : inventory[k] = MaxValue(inventory)}

\* max_items of the tie test
MaxItems(inventory) ==
    {k \in DOMAIN inventory : inventory[k] = MaxValue(inventory)}

\* the dominant resource, defined for a unique maximum
Dominant(inventory) == CHOOSE k \in MaxItems(inventory) : TRUE

\* Credit with a bug: the learning rate is 1.3
CreditOvershoots(value, target) ==
    value + (AlphaNum + Ten) * ((target * Scale - value) \div Ten)

\* Credit with a bug: the learning rate is left out
CreditWithoutRate(value, target) == value + (target * Scale - value)

\* value + alpha * (target - value), on credibilities scaled by Scale
Credit(value, target) ==
    value + AlphaNum * ((target * Scale - value) \div Ten)

\* value > self.good_hypothesis_thr
AboveThreshold(value) == value > ThrNum * (Scale \div Ten)

\* ScoreOne with a bug: every scored hypothesis sets the flag
ScoreOneFlagsAll(h, empirical_opp_inventory, bp) ==
    LET same(e) == [h |-> h, found |-> FALSE, exc |-> e]
    IN
    IF "next_inventories" \notin DOMAIN h THEN same("KeyError")
    ELSE IF "predicted_opponent_next_inventory" \notin DOMAIN h.next_inventories
    THEN same(IF bp = "quit" THEN "BdbQuit" ELSE "KeyError")
    ELSE
    LET predicted == h.next_inventories.predicted_opponent_next_inventory
    IN
    IF DOMAIN predicted = {} THEN same("ValueError")
    ELSE IF Cardinality(MaxItems(predicted)) > 1 THEN same("none")
    ELSE IF DOMAIN empirical_opp_inventory = {} THEN same("ValueError")
    ELSE IF Cardinality(MaxItems(empirical_opp_inventory)) > 1 THEN same("none")
    ELSE
    LET same_max_item == Dominant(predicted) = Dominant(empirical_opp_inventory)
        target == IF same_max_item THEN correct_guess_reward
                  ELSE -correct_guess_reward
        scored == [h EXCEPT !.value = Credit(h.value, target)]
    IN [h |-> scored, found |-> TRUE, exc |-> "none"]

\* The body of the for loop of eval_hypotheses for one key.  The result is
\* the hypothesis after the pass, whether the pass set the flag, and the
\* exception that ended it ("none": the loop goes on).  bp is what the
\* debugger does at breakpoint(): "continue" or "quit".
ScoreOne(h, empirical_opp_inventory, bp) ==
    LET same(e) == [h |-> h, found |-> FALSE, exc |-> e]
    IN
    IF "next_inventories" \notin DOMAIN h THEN same("KeyError")
    ELSE IF "predicted_opponent_next_inventory" \notin DOMAIN h.next_inventories
    THEN same(IF bp = "quit" THEN "BdbQuit" ELSE "KeyError")
    ELSE
    LET predicted == h.next_inventories.predicted_opponent_next_inventory
    IN
    IF DOMAIN predicted = {} THEN same("ValueError")
    ELSE IF Cardinality(MaxItems(predicted)) > 1 THEN same("none")
    ELSE IF DOMAIN empirical_opp_inventory = {} THEN same("ValueError")
    ELSE IF Cardinality(MaxItems(empirical_opp_inventory)) > 1 THEN same("none")
    ELSE
    LET same_max_item == Dominant(predicted) = Dominant(empirical_opp_inventory)
        target == IF same_max_item THEN correct_guess_reward
                  ELSE -correct_guess_reward
        scored == [h EXCEPT !.value = Credit(h.value, target)]
    IN [h |-> scored, found |-> AboveThreshold(scored.value), exc |-> "none"]

\* for key in keys2eval: ...   An exception leaves the loop at once, with
\* the hypotheses scored so far already written.
RECURSIVE ScoreKeys(_, _, _, _, _)
ScoreKeys(keys, bank, flag, empirical, bp) ==
    IF keys = <<>> THEN [bank |-> bank, flag |-> flag, exc |-> "none"]
    ELSE LET r == ScoreOne(bank[Head(keys)], empirical, bp)
             b == [bank EXCEPT ![Head(keys)] = r.h]
         IN IF r.exc # "none"
            THEN [bank |-> b, flag |-> flag, exc |-> r.exc]
            ELSE ScoreKeys(Tail(keys), b, flag \/ r.found, empirical, bp)

\* eval_hypotheses with a bug: the loop runs twice
eval_hypotheses_twice(bank, history, bp) ==
    LET empirical == history[Len(history)].possible_opponent_inventory
        once == ScoreKeys(Keys2Eval(bank), bank, FALSE, empirical, bp)
    IN IF once.exc # "none" THEN once
       ELSE ScoreKeys(Keys2Eval(once.bank), once.bank, once.flag, empirical, bp)

\* eval_hypotheses: the flag is cleared, then the loop runs
eval_hypotheses(bank, history, bp) ==
    ScoreKeys(Keys2Eval(bank), bank, FALSE,
              history[Len(history)].possible_opponent_inventory, bp)

----------------------------------------------------------------------------
(* PlanValidator *)

\* state["global"]["wall"] of the observation the controller is called with
wall_locations == {<<0, 1>>, <<1, 0>>, <<2, 1>>}

\* the action-commands of a plan: "move_to((x, y), (x, y))", "fire_at((x, y))",
\* and a command that names no coordinate
MoveTo(start, goal) == [func |-> "move_to", start |-> start, goal |-> goal]
FireAt(target) == [func |-> "fire_at", target |-> target]
Explore == [func |-> "explore"]

\* tuple(map(int, plan.split("(")[-1].strip(")").split(", "))): the last
\* coordinate the command names; int("") raises ValueError when it names none
Destination(plan) ==
    IF plan.func = "move_to" THEN [raised |-> FALSE, value |-> plan.goal]
    ELSE IF plan.func = "fire_at" THEN [raised |-> FALSE, value |-> plan.target]
    ELSE [raised |-> TRUE]

\* The failure descriptions of is_valid_plan
NoActionPlan(goals_and_actions) ==
    [kind |-> "no_action_plan", response |-> goals_and_actions]
InvalidDestination(plan) == [kind |-> "invalid_destination", plan |-> plan]
LeadsToWall(wall) == [kind |-> "leads_to_wall", destination |-> wall]
NoMessage == [kind |-> "none"]

\* for plan in goals_and_actions["action_plan"]: the first command that fails
RECURSIVE CheckCommands(_)
CheckCommands(commands) ==
    IF commands = <<>> THEN [valid |-> TRUE, response |-> NoMessage]
    ELSE LET d == Destination(Head(commands))
         IN IF d.raised
            THEN [valid |-> FALSE, response |-> InvalidDestination(Head(commands))]
            ELSE IF d.value \in wall_locations
            THEN [valid |-> FALSE, response |-> LeadsToWall(d.value)]
            ELSE CheckCommands(Tail(commands))

\* is_valid_plan with a bug: a missing or empty plan is not looked for
is_valid_plan_unguarded(goals_and_actions) ==
    CheckCommands(IF "action_plan" \in DOMAIN goals_and_actions
                  THEN goals_and_actions.action_plan ELSE <<>>)

\* is_valid_plan(state, goals_and_actions) -> (valid, response)
is_valid_plan(goals_and_actions) ==
    IF \/ "action_plan" \notin DOMAIN goals_and_actions
       \/ Len(goals_and_actions.action_plan) = 0
    THEN [valid |-> FALSE, response |-> NoActionPlan(goals_and_actions)]
    ELSE CheckCommands(goals_and_actions.action_plan)

\* extract_dict: the dict the text holds, {} when none can be read
extract_dict(text) == IF text.kind = "object" THEN text.obj ELSE EmptyDict

\* parse_multiple_llm_responses with a bug: the dict is not validated
parse_without_validation(text) == extract_dict(text)

\* parse_multiple_llm_responses(response, "subgoal", state) for one response:
\* the dict is returned only if it is a valid plan, otherwise ("", {})
parse_multiple_llm_responses(text) ==
    LET response_dict == extract_dict(text)
    IN IF DOMAIN response_dict = {} THEN EmptyDict
       ELSE IF ~is_valid_plan(response_dict).valid THEN EmptyDict
       ELSE response_dict

----------------------------------------------------------------------------
(* Requests to the reasoning service *)

Pending == [kind |-> "pending"]

\* execution_outcomes, the feedback the caller passes to the first plan request
ExecutionOutcomes == [kind |-> "execution_outcomes"]

\* One controller.run(...) call: the call site, what the prompt was built
\* from (the hypothesis key and strategy of message3, the feedback of the
\* plan request), and the reply once it has arrived
Call(site, key, strategy, feedback) ==
    [site |-> site, key |-> key, strategy |-> strategy, feedback |-> feedback,
     reply |-> Pending]

InferenceCall == Call("inference", 0, EmptyDict, NoMessage)
StrategyCall == Call("strategy", 0, EmptyDict, NoMessage)
HlsCall == Call("hls", 0, EmptyDict, NoMessage)
NegotiationCall(key, strategy) == Call("negotiation", key, strategy, NoMessage)
SubgoalCall(feedback) == Call("subgoal", 0, EmptyDict, feedback)

\* the force= argument of controller.run at the call site (lines 443, 471,
\* 508, 569, 598, 618, 635)
Force(site) ==
    CASE site = "inference" -> "dict"
      [] site = "strategy" -> "dict"
      [] site = "hls" -> "dict"
      [] site = "negotiation" -> "next_inventories"
      [] site = "subgoal" -> "subgoal"

\* the reply is an instance of the schema.  STEP_JSON_SCHEMA: an object
\* with "action_plan" and no other key, an array of at least one command
\* string
Conforms(schema, text) ==
    CASE schema = "STEP_JSON_SCHEMA" ->
            /\ text.kind = "object"
            /\ DOMAIN text.obj = {"action_plan"}
            /\ Len(text.obj.action_plan) >= 1
      [] OTHER -> FALSE

\* the replies are in: what an await on one call, or on gather, waits for
AllReplied == \A i \in 1..Len(inflight) : inflight[i].reply # Pending

\* "possible_opponent_inventory" in parsed
InferenceAccepts(text) ==
    LET parsed == _parse_json_like_object(text)
    IN ~parsed.raised /\ "possible_opponent_inventory" \in DOMAIN parsed.value

\* isinstance(inv, dict) and both keys in inv
NegotiationAccepts(text) ==
    LET parsed == _parse_json_like_object(text)
    IN /\ ~parsed.raised
       /\ "my_next_inventory" \in DOMAIN parsed.value
       /\ "predicted_opponent_next_inventory" \in DOMAIN parsed.value

\* the reply carries the payload its call site asks for
WellFormed(site, text) ==
    CASE site = "inference" -> InferenceAccepts(text)
      [] site = "strategy" -> ~_parse_json_like_object(text).raised
      [] site = "negotiation" -> NegotiationAccepts(text)
      [] OTHER -> FALSE

----------------------------------------------------------------------------
(* The caller's side of a duel: the interaction record is appended and the *)
(* duel is counted before the controller is asked for the next response    *)

InteractionRecord(n) ==
    [step |-> Ten * n, your_inventory |-> Inv(5, 1, 1), reward |-> n]

OnInteraction(maxDuels) ==
    /\ pc = "idle"
    /\ UNCHANGED <<memory, executor, sent>>
    /\ interaction_num < maxDuels
    /\ interaction_num' = interaction_num + 1
    /\ interaction_history' =
           Append(interaction_history, InteractionRecord(interaction_num + 1))
    /\ pc' = "duel"
    /\ UNCHANGED <<opponent_hypotheses, good_hypothesis_found,
                   possible_opponent_strategy, next_inventories, tries,
                   sorted_keys, inflight, goal_and_plan, outcome, onlyMalformed>>

----------------------------------------------------------------------------
(* two_level_plan *)

Outcome(status, exc, at) == [status |-> status, exc |-> exc, at |-> at]
NotRun == Outcome("none", "", "")
Running == Outcome("running", "", "")
Returned == Outcome("returned", "", "")

\* two_level_plan(after_interaction=True) up to its first await
TwoLevelPlanAfterInteraction ==
    /\ pc = "duel"
    /\ UNCHANGED <<memory, executor, sent>>
    /\ pc' = "inference"
    /\ tries' = 0
    /\ inflight' = <<InferenceCall>>
    /\ outcome' = Running
    /\ goal_and_plan' = EmptyDict
    /\ UNCHANGED <<agentState, sorted_keys, onlyMalformed>>

\* two_level_plan(after_interaction=False) up to its first await
TwoLevelPlanNoInteraction ==
    /\ pc = "idle"
    /\ UNCHANGED <<memory, executor, sent>>
    /\ pc' = "hls"
    /\ tries' = 0
    /\ inflight' = <<HlsCall>>
    /\ outcome' = Running
    /\ goal_and_plan' = EmptyDict
    /\ UNCHANGED <<agentState, sorted_keys, onlyMalformed>>

\* the exception exc, raised in function at, leaves two_level_plan: nothing
\* catches it
Raise(exc, at) ==
    /\ pc' = "raised"
    /\ outcome' = Outcome("raised", exc, at)
    /\ inflight' = <<>>

\* subgoal_module up to its first await
EnterSubgoalModule ==
    /\ pc' = "subgoal"
    /\ tries' = 0
    /\ inflight' = <<SubgoalCall(ExecutionOutcomes)>>

\* ScoreAndBranch with a bug: the branch is chosen on the flag as it was
\* before scoring
ScoreAndBranchOnOldFlag(history, bp) ==
    LET scored == IF interaction_num > 1
                  THEN eval_hypotheses(opponent_hypotheses, history, bp)
                  ELSE [bank |-> opponent_hypotheses,
                        flag |-> good_hypothesis_found, exc |-> "none"]
        ranked == SortedByValue(DOMAIN scored.bank, scored.bank)
    IN
    /\ opponent_hypotheses' = scored.bank
    /\ good_hypothesis_found' = scored.flag
    /\ IF scored.exc # "none"
       THEN /\ Raise(scored.exc, "eval_hypotheses")
            /\ UNCHANGED <<possible_opponent_strategy, sorted_keys, tries>>
       ELSE IF ~good_hypothesis_found
       THEN /\ pc' = "strategy"
            /\ inflight' = <<StrategyCall>>
            /\ tries' = 0
            /\ UNCHANGED <<possible_opponent_strategy, sorted_keys, outcome>>
       ELSE IF ranked = <<>>
       THEN /\ Raise("IndexError", "two_level_plan")
            /\ sorted_keys' = ranked
            /\ UNCHANGED <<possible_opponent_strategy, tries>>
       ELSE IF ~AboveThreshold(scored.bank[ranked[1]].value)
       THEN /\ Raise("AssertionError", "two_level_plan")
            /\ sorted_keys' = ranked
            /\ UNCHANGED <<possible_opponent_strategy, tries>>
       ELSE /\ sorted_keys' = ranked
            /\ possible_opponent_strategy' = scored.bank[ranked[1]]
            /\ pc' = "commit"
            /\ inflight' = <<NegotiationCall(ranked[1], scored.bank[ranked[1]])>>
            /\ tries' = 0
            /\ UNCHANGED outcome

\* lines 464-472 and 555-570: scoring, then the branch and its first request
ScoreAndBranch(history, bp) ==
    LET scored == IF interaction_num > 1
                  THEN eval_hypotheses(opponent_hypotheses, history, bp)
                  ELSE [bank |-> opponent_hypotheses,
                        flag |-> good_hypothesis_found, exc |-> "none"]
        ranked == SortedByValue(DOMAIN scored.bank, scored.bank)
    IN
    /\ opponent_hypotheses' = scored.bank
    /\ good_hypothesis_found' = scored.flag
    /\ IF scored.exc # "none"
       THEN /\ Raise(scored.exc, "eval_hypotheses")
            /\ UNCHANGED <<possible_opponent_strategy, sorted_keys, tries>>
       ELSE IF ~scored.flag
       THEN /\ pc' = "strategy"
            /\ inflight' = <<StrategyCall>>
            /\ tries' = 0
            /\ UNCHANGED <<possible_opponent_strategy, sorted_keys, outcome>>
       ELSE IF ranked = <<>>
       THEN /\ Raise("IndexError", "two_level_plan")
            /\ sorted_keys' = ranked
            /\ UNCHANGED <<possible_opponent_strategy, tries>>
       ELSE IF ~AboveThreshold(scored.bank[ranked[1]].value)
       THEN /\ Raise("AssertionError", "two_level_plan")
            /\ sorted_keys' = ranked
            /\ UNCHANGED <<possible_opponent_strategy, tries>>
       ELSE /\ sorted_keys' = ranked
            /\ possible_opponent_strategy' = scored.bank[ranked[1]]
            /\ pc' = "commit"
            /\ inflight' = <<NegotiationCall(ranked[1], scored.bank[ranked[1]])>>
            /\ tries' = 0
            /\ UNCHANGED outcome

\* InferenceLoopGoesOn with a bug: the bound is off by one
InferenceLoopOneMore(ok, n) == ~ok /\ n <= RetryBound

\* while not ok and tries < 15
InferenceLoopGoesOn(ok, n) == ~ok /\ n < RetryBound

\* the opponent-inventory request has been answered (line 442): the rest
\* of the loop body, then, once the loop is left, lines 456-472 or 555-570.
\* bp is what the debugger does at breakpoint(): "continue" or "quit".
InferenceResume ==
    /\ pc = "inference"
    /\ UNCHANGED <<memory, executor, sent>>
    /\ AllReplied
    /\ \E bp \in {"continue", "quit"} :
        LET text == inflight[1].reply
            ok == InferenceAccepts(text)
            n == IF ok THEN tries ELSE tries + 1
            possible_opponent_inventory ==
                IF ok THEN _parse_json_like_object(text).value
                ELSE [possible_opponent_inventory |-> EmptyDict]
            history ==
                [interaction_history EXCEPT ![Len(interaction_history)] =
                    Update(@, possible_opponent_inventory)]
        IN
        IF InferenceLoopGoesOn(ok, n)
        THEN /\ tries' = n
             /\ inflight' = <<InferenceCall>>
             /\ UNCHANGED <<pc, agentState, sorted_keys, outcome>>
        ELSE /\ interaction_history' = history
             /\ ScoreAndBranch(history, bp)
             /\ UNCHANGED <<interaction_num, next_inventories>>
    /\ UNCHANGED <<goal_and_plan, onlyMalformed>>

\* user_messages = [msg3_latest] + [message3(step, hypotheses[key]) for key in
\* sorted_keys[: self.top_k]]: one call per message
NegotiationCalls(latest, strategy, keys, bank) ==
    <<NegotiationCall(latest, strategy)>> \o
        [i \in 1..Len(Prefix(keys, top_k)) |->
            NegotiationCall(keys[i], bank[keys[i]])]

\* StrategyResume with a bug: the bank is started again with the new hypothesis
StrategyResumeRestarts ==
    /\ pc = "strategy"
    /\ UNCHANGED <<memory, executor, sent>>
    /\ AllReplied
    /\ LET parsed == _parse_json_like_object(inflight[1].reply)
           strategy == IF parsed.raised
                       THEN [Opponent_strategy |-> "unknown"]
                       ELSE parsed.value
           bank == interaction_num :> Update(strategy, [value |-> 0])
           keys == SortedByValue(DOMAIN bank \ {interaction_num}, bank)
       IN
       /\ possible_opponent_strategy' = strategy
       /\ opponent_hypotheses' = bank
       /\ sorted_keys' = keys
       /\ tries' = 0
       /\ inflight' = NegotiationCalls(interaction_num, strategy, keys, bank)
    /\ pc' = "negotiation"
    /\ UNCHANGED <<interaction_num, interaction_history, good_hypothesis_found,
                   next_inventories, goal_and_plan, outcome, onlyMalformed>>

\* the opponent-strategy request has been answered (line 470): the new
\* hypothesis is recorded with credibility 0 and the negotiation requests
\* fan out
StrategyResume ==
    /\ pc = "strategy"
    /\ UNCHANGED <<memory, executor, sent>>
    /\ AllReplied
    /\ LET parsed == _parse_json_like_object(inflight[1].reply)
           strategy == IF parsed.raised
                       THEN [Opponent_strategy |-> "unknown"]
                       ELSE parsed.value
           bank == Update(opponent_hypotheses,
                          interaction_num :> Update(strategy, [value |-> 0]))
           keys == SortedByValue(DOMAIN bank \ {interaction_num}, bank)
       IN
       /\ possible_opponent_strategy' = strategy
       /\ opponent_hypotheses' = bank
       /\ sorted_keys' = keys
       /\ tries' = 0
       /\ inflight' = NegotiationCalls(interaction_num, strategy, keys, bank)
    /\ pc' = "negotiation"
    /\ UNCHANGED <<interaction_num, interaction_history, good_hypothesis_found,
                   next_inventories, goal_and_plan, outcome, onlyMalformed>>

\* CommitResults with a bug: result i is cached on sorted_keys[i], not on
\* sorted_keys[i - 1]
RECURSIVE CommitResultsShifted(_, _, _, _, _, _)
CommitResultsShifted(i, results, latest, keys, target, bank) ==
    IF i > Len(results) THEN [ok |-> TRUE, target |-> target, bank |-> bank]
    ELSE IF ~NegotiationAccepts(results[i].reply)
    THEN [ok |-> FALSE, target |-> target, bank |-> bank]
    ELSE LET inv == _parse_json_like_object(results[i].reply).value
             key == IF i = 1 THEN latest ELSE keys[Min(i, Len(keys))]
         IN CommitResultsShifted(i + 1, results, latest, keys,
                IF i = 1 THEN inv ELSE target,
                [bank EXCEPT ![key] = Update(@, [next_inventories |-> inv])])

\* for i, t in enumerate(results): the loop of lines 514-534 from result i
\* on, threading self.next_inventories and self.opponent_hypotheses; the
\* first result that is not accepted ends it with ok = False
RECURSIVE CommitResults(_, _, _, _, _, _)
CommitResults(i, results, latest, keys, target, bank) ==
    IF i > Len(results) THEN [ok |-> TRUE, target |-> target, bank |-> bank]
    ELSE IF ~NegotiationAccepts(results[i].reply)
    THEN [ok |-> FALSE, target |-> target, bank |-> bank]
    ELSE LET inv == _parse_json_like_object(results[i].reply).value
             key == IF i = 1 THEN latest ELSE keys[i - 1]
         IN CommitResults(i + 1, results, latest, keys,
                IF i = 1 THEN inv ELSE target,
                [bank EXCEPT ![key] = Update(@, [next_inventories |-> inv])])

\* while not ok and tries < 15
NegotiationLoopGoesOn(ok, n) == ~ok /\ n < RetryBound

\* gather returns (line 502): the results are gone through in request
\* order, then the batch is retried, or the loop is left for lines 537-554
NegotiationJoin ==
    /\ pc = "negotiation"
    /\ UNCHANGED <<memory, executor, sent>>
    /\ AllReplied
    /\ LET r == CommitResults(1, inflight, interaction_num, sorted_keys,
                              next_inventories, opponent_hypotheses)
       IN /\ opponent_hypotheses' = r.bank
          /\ IF NegotiationLoopGoesOn(r.ok, tries + 1)
             THEN /\ next_inventories' = r.target
                  /\ tries' = tries + 1
                  /\ inflight' = [i \in 1..Len(inflight) |->
                                     [inflight[i] EXCEPT !.reply = Pending]]
                  /\ UNCHANGED pc
             ELSE /\ next_inventories' =
                         IF r.ok THEN r.target ELSE DefaultNextInventories
                  /\ EnterSubgoalModule
    /\ UNCHANGED <<interaction_num, interaction_history, good_hypothesis_found,
                   possible_opponent_strategy, sorted_keys, goal_and_plan,
                   outcome, onlyMalformed>>

\* CommitResume with a bug: the result is cached on the hypothesis ranked
\* last, not on best_key
CommitResumeOnLast ==
    /\ pc = "commit"
    /\ UNCHANGED <<memory, executor, sent>>
    /\ AllReplied
    /\ LET parsed == _parse_json_like_object(inflight[1].reply)
           target == IF parsed.raised THEN DefaultNextInventories
                     ELSE parsed.value
           last_key == sorted_keys[Len(sorted_keys)]
       IN
       /\ next_inventories' = target
       /\ opponent_hypotheses' =
              [opponent_hypotheses EXCEPT ![last_key] =
                  Update(@, [next_inventories |-> target])]
    /\ EnterSubgoalModule
    /\ UNCHANGED <<interaction_num, interaction_history, good_hypothesis_found,
                   possible_opponent_strategy, sorted_keys, goal_and_plan,
                   outcome, onlyMalformed>>

\* the single negotiation request of the good-hypothesis path has been
\* answered (line 568): whatever parses becomes the target and is cached on
\* best_key
CommitResume ==
    /\ pc = "commit"
    /\ UNCHANGED <<memory, executor, sent>>
    /\ AllReplied
    /\ LET parsed == _parse_json_like_object(inflight[1].reply)
           target == IF parsed.raised THEN DefaultNextInventories
                     ELSE parsed.value
           best_key == sorted_keys[1]
       IN
       /\ next_inventories' = target
       /\ opponent_hypotheses' =
              [opponent_hypotheses EXCEPT ![best_key] =
                  Update(@, [next_inventories |-> target])]
    /\ EnterSubgoalModule
    /\ UNCHANGED <<interaction_num, interaction_history, good_hypothesis_found,
                   possible_opponent_strategy, sorted_keys, goal_and_plan,
                   outcome, onlyMalformed>>

\* HlsResume with a bug: the target is put back to the default
HlsResumeResetsTarget ==
    /\ pc = "hls"
    /\ UNCHANGED <<memory, executor, sent>>
    /\ AllReplied
    /\ EnterSubgoalModule
    /\ next_inventories' = DefaultNextInventories
    /\ UNCHANGED <<interaction_num, interaction_history, opponent_hypotheses,
                   good_hypothesis_found, possible_opponent_strategy,
                   sorted_keys, goal_and_plan, outcome, onlyMalformed>>

\* the open-ended strategy request has been answered (line 597): the text
\* is only passed on to the caller
HlsResume ==
    /\ pc = "hls"
    /\ UNCHANGED <<memory, executor, sent>>
    /\ AllReplied
    /\ EnterSubgoalModule
    /\ UNCHANGED <<agentState, sorted_keys, goal_and_plan, outcome,
                   onlyMalformed>>

----------------------------------------------------------------------------
(* subgoal_module *)

\* PlanLoopGoesOn with a bug: the bound is off by one
PlanLoopOneMore(valid_plan, counter) == ~valid_plan /\ counter <= RetryBound

\* while not valid_plan and counter < 15
PlanLoopGoesOn(valid_plan, counter) == ~valid_plan /\ counter < RetryBound

\* A plan request has been answered (lines 617 and 634): the plan is parsed
\* and validated, then either the next request goes out with the
\* validator's response to goal_and_plan, or the loop is left for lines
\* 644-653 and the return of two_level_plan.  bp is what the debugger does
\* at breakpoint().
SubgoalResume ==
    /\ pc \in {"subgoal", "subgoal_retry"}
    /\ UNCHANGED <<memory, executor, sent>>
    /\ AllReplied
    /\ \E bp \in {"continue", "quit"} :
        LET plan == parse_multiple_llm_responses(inflight[1].reply)
            checked == is_valid_plan(plan)
            counter == IF pc = "subgoal" THEN 0 ELSE tries + 1
        IN
        IF PlanLoopGoesOn(checked.valid, counter)
        THEN /\ pc' = "subgoal_retry"
             /\ tries' = counter
             /\ inflight' = <<SubgoalCall(checked.response)>>
             /\ UNCHANGED <<goal_and_plan, outcome>>
        ELSE IF "action_plan" \notin DOMAIN plan /\ bp = "quit"
        THEN /\ Raise("BdbQuit", "subgoal_module")
             /\ UNCHANGED <<tries, goal_and_plan>>
        ELSE /\ goal_and_plan' = Update(plan, [subgoal_num |-> 0])
             /\ pc' = "idle"
             /\ outcome' = Returned
             /\ inflight' = <<>>
             /\ tries' = 0
    /\ UNCHANGED <<agentState, sorted_keys, onlyMalformed>>

\* the controller runs from the answer(s) it awaited to its next await
Resume ==
    \/ InferenceResume
    \/ StrategyResume
    \/ NegotiationJoin
    \/ CommitResume
    \/ HlsResume
    \/ SubgoalResume

----------------------------------------------------------------------------
(* What the reasoning service may answer *)

RockHeavy == Inv(5, 1, 1)
PaperHeavy == Inv(1, 5, 1)
Even == Inv(1, 1, 1)

OpponentInventory(inventory) == Object([possible_opponent_inventory |-> inventory])
NextInventories(mine, theirs) ==
    Object([my_next_inventory |-> mine,
            predicted_opponent_next_inventory |-> theirs])
ValidPlan == Object([action_plan |-> <<MoveTo(<<1, 1>>, <<1, 2>>), FireAt(<<1, 3>>)>>])
WallPlan == Object([action_plan |-> <<MoveTo(<<1, 1>>, <<1, 2>>),
                                      MoveTo(<<1, 2>>, <<2, 1>>)>>])
EmptyPlan == Object([action_plan |-> <<>>])

\* anything: prose, broken blobs, objects without the payload, payloads
AnyText(call) ==
    CASE call.site = "inference" ->
            {Prose, Object([note |-> "no inventory"]),
             OpponentInventory(RockHeavy), OpponentInventory(Even)}
      [] call.site = "strategy" ->
            {Broken, Object([Opponent_strategy |-> "pure rock"])}
      [] call.site = "negotiation" ->
            {Prose, Object([my_next_inventory |-> PaperHeavy]),
             NextInventories(PaperHeavy, RockHeavy)}
      [] call.site = "subgoal" -> {Prose, EmptyPlan, WallPlan, ValidPlan}
      [] call.site = "hls" -> {Prose}

\* the prediction the service makes for the hypothesis with this key: the
\* predicted opponent inventory goes round rock-heavy, paper-heavy, even,
\* and no two hypotheses get the same answer
PredictionFor(key) ==
    NextInventories(Inv(1, 1, 1 + key),
                    CASE key % 3 = 1 -> RockHeavy
                      [] key % 3 = 2 -> PaperHeavy
                      [] OTHER -> Even)

\* the payload the call site asks for, with the inferred inventories given
AcceptedText(call, inferred) ==
    CASE call.site = "inference" -> {OpponentInventory(i) : i \in inferred}
      [] call.site = "strategy" -> {Object([Opponent_strategy |-> "pure rock"])}
      [] call.site = "negotiation" -> {PredictionFor(call.key)}
      [] call.site = "subgoal" -> {ValidPlan}
      [] call.site = "hls" -> {Prose}

DeepText(call) == AcceptedText(call, {RockHeavy, PaperHeavy, Even})
LongText(call) == AcceptedText(call, {RockHeavy, PaperHeavy})

\* as DeepText, but a next-inventory request may be answered with prose
MixedText(call) ==
    IF call.site = "negotiation"
    THEN {Prose, PredictionFor(call.key)}
    ELSE AcceptedText(call, {RockHeavy})

\* as DeepText, but the object that answers an inference request may hold,
\* next to the inferred inventory, a key that the interaction record has too
KeysText(call) ==
    IF call.site = "inference"
    THEN {OpponentInventory(RockHeavy), OpponentInventory(PaperHeavy),
          Object([possible_opponent_inventory |-> RockHeavy,
                  your_inventory |-> PaperHeavy])}
    ELSE AcceptedText(call, {RockHeavy})

\* the answers the service may give to the call, by the name of the alphabet
Texts(alphabet, call) ==
    CASE alphabet = "any" -> AnyText(call)
      [] alphabet = "deep" -> DeepText(call)
      [] alphabet = "long" -> LongText(call)
      [] alphabet = "mixed" -> MixedText(call)
      [] alphabet = "keys" -> KeysText(call)

\* ServiceReplies with a bug: the answer to the request for the most recent
\* hypothesis becomes the governing target as it arrives
ServiceRepliesCommitting(alphabet) ==
    /\ \E i \in 1..Len(inflight) :
        /\ inflight[i].reply = Pending
        /\ \E text \in Texts(alphabet, inflight[i]) :
            /\ inflight' = [inflight EXCEPT ![i].reply = text]
            /\ onlyMalformed' =
                   (onlyMalformed /\ ~WellFormed(inflight[i].site, text))
            /\ next_inventories' =
                   IF /\ pc = "negotiation"
                      /\ i = 1
                      /\ NegotiationAccepts(text)
                   THEN _parse_json_like_object(text).value
                   ELSE next_inventories
    /\ UNCHANGED <<pc, interaction_num, interaction_history,
                   opponent_hypotheses, good_hypothesis_found,
                   possible_opponent_strategy, tries, sorted_keys,
                   goal_and_plan, outcome>>
    /\ UNCHANGED <<memory, executor, sent>>

\* The reasoning service answers one of the requests in flight, in any
\* order; the controller stays suspended.
ServiceReplies(alphabet) ==
    /\ \E i \in 1..Len(inflight) :
        /\ inflight[i].reply = Pending
        /\ \E text \in Texts(alphabet, inflight[i]) :
            /\ inflight' = [inflight EXCEPT ![i].reply = text]
            /\ onlyMalformed' =
                   (onlyMalformed /\ ~WellFormed(inflight[i].site, text))
    /\ UNCHANGED <<pc, agentState, tries, sorted_keys, goal_and_plan, outcome>>
    /\ UNCHANGED <<memory, executor, sent>>

----------------------------------------------------------------------------
(* Memory of observed entity locations: update_memory and                  *)
(* retrieve_memory_for_prompt.  An entry (location, step) is the tuple     *)
(* <<location, step>>, a location the tuple <<x, y>>.                      *)

\* ttl_steps and max_per_type of retrieve_memory_for_prompt, which are also
\* what both prompts retrieve with
ttl_steps == 100
max_per_type == 12

\* game steps between two ticks of the caller's loop
Stride == 55
\* the loop is followed for this many ticks
MaxTicks == 2
\* boxes in the row of yellow boxes that is seen at once
FieldSize == 13

agent_id == "player_0"
player_key == agent_id
opponent_key == IF agent_id = "player_0" THEN "player_1" ELSE "player_0"

\* the entity types in the order update_memory goes through them
EntityTypes ==
    <<"yellow_box", "blue_box", "purple_box", "ground", player_key, opponent_key>>

EntityNames == {EntityTypes[i] : i \in 1..Len(EntityTypes)}

\* __init__: an empty list for every entity type
EmptyMemory == [entity_type \in EntityNames |-> <<>>]

entry_loc(entry) == entry[1]

\* [e for e in entries if entry_loc(e) != location]
Without(entries, location) ==
    SelectSeq(entries, LAMBDA e : entry_loc(e) # location)

\* Observe with a bug: the entity's older entry for the location is kept
ObserveKeepsOld(mem, entity_type, location, step) ==
    [other \in DOMAIN mem |->
        IF other = entity_type
        THEN Append(mem[other], <<location, step>>)
        ELSE Without(mem[other], location)]

\* Observe with a bug: the other entities' lists are left as they are
ObserveKeepsOthers(mem, entity_type, location, step) ==
    [other \in DOMAIN mem |->
        IF other = entity_type
        THEN Append(Without(mem[other], location), <<location, step>>)
        ELSE mem[other]]

\* the body of "for location in observed_locations": the location is taken
\* out of every entity's list and appended, with the step, to this one's
Observe(mem, entity_type, location, step) ==
    [other \in DOMAIN mem |->
        IF other = entity_type
        THEN Append(Without(mem[other], location), <<location, step>>)
        ELSE Without(mem[other], location)]

RECURSIVE ObserveAll(_, _, _, _)
ObserveAll(mem, entity_type, locations, step) ==
    IF locations = <<>> THEN mem
    ELSE ObserveAll(Observe(mem, entity_type, Head(locations), step),
                    entity_type, Tail(locations), step)

\* a player's entry of the snapshot is (location, orientation), and the
\* location is v[0]; the other types list their locations
observed_locations(ego_state, entity_type) ==
    IF entity_type \in {player_key, opponent_key}
    THEN [i \in 1..Len(ego_state[entity_type]) |-> ego_state[entity_type][i][1]]
    ELSE ego_state[entity_type]

\* update_memory from the i-th entity type on
RECURSIVE UpdateFrom(_, _, _, _)
UpdateFrom(mem, ego_state, step, i) ==
    IF i > Len(EntityTypes) THEN mem
    ELSE UpdateFrom(ObserveAll(mem, EntityTypes[i],
                               observed_locations(ego_state, EntityTypes[i]),
                               step),
                    ego_state, step, i + 1)

update_memory(mem, ego_state, step) == UpdateFrom(mem, ego_state, step, 1)

\* _target_resource_types_from_next_inventory: the boxes of the resources
\* my_next_inventory wants at least one of, in the order yellow, blue, purple
mapping ==
    ("rock/yellow" :> "yellow_box") @@ ("paper/purple" :> "purple_box")
        @@ ("scissors/blue" :> "blue_box")

_target_resource_types_from_next_inventory(inventories) ==
    LET inv == IF "my_next_inventory" \in DOMAIN inventories
               THEN inventories.my_next_inventory
               ELSE EmptyDict
    IN SelectSeq(<<"yellow_box", "blue_box", "purple_box">>,
                 LAMBDA t : \E k \in DOMAIN inv :
                                k \in DOMAIN mapping /\ mapping[k] = t /\ inv[k] > 0)

None == <<>>

Abs(n) == IF n < 0 THEN -n ELSE n

manhattan(a, b) == Abs(a[1] - b[1]) + Abs(a[2] - b[2])

\* the distance of an entry when no position is given
Unplaced == Ten ^ 9

\* Stale with a bug: an entry as old as the ttl is dropped too
StaleAtTtl(entry, current_step, ttl) == current_step - entry[2] >= ttl

\* "(current_step - seen_step) > ttl_steps: continue"
Stale(entry, current_step, ttl) == current_step - entry[2] > ttl

\* filtered: the entries that are not stale, each with its distance
Filtered(entries, current_position, current_step, ttl) ==
    LET kept == SelectSeq(entries, LAMBDA e : ~Stale(e, current_step, ttl))
    IN [i \in 1..Len(kept) |->
           <<kept[i][1], kept[i][2],
             IF current_position # None
             THEN manhattan(current_position, kept[i][1])
             ELSE Unplaced>>]

\* KeyLess with a bug: the key is the distance alone
KeyLessByDistance(a, b) == a[3] < b[3]

\* the sort key (dist, -seen_step) of a is less than that of b
KeyLess(a, b) == a[3] < b[3] \/ (a[3] = b[3] /\ a[2] > b[2])

\* list.sort is stable: an element goes behind those whose key is not greater
RECURSIVE Inserted(_, _)
Inserted(sorted, e) ==
    IF sorted = <<>> THEN <<e>>
    ELSE IF KeyLess(e, Head(sorted)) THEN <<e>> \o sorted
    ELSE <<Head(sorted)>> \o Inserted(Tail(sorted), e)

RECURSIVE SortedByKey(_)
SortedByKey(seq) ==
    IF seq = <<>> THEN <<>>
    ELSE Inserted(SortedByKey(SubSeq(seq, 1, Len(seq) - 1)), seq[Len(seq)])

\* the types retrieve_memory_for_prompt goes through
RetrievedTypes(inventories, target_only, include_players) ==
    (IF target_only
     THEN _target_resource_types_from_next_inventory(inventories)
     ELSE <<"yellow_box", "blue_box", "purple_box">>)
    \o (IF include_players THEN <<"player_0", "player_1">> ELSE <<>>)

\* out[t]: the first max_per_type of the sorted entries, as (loc, seen_step)
TopOf(entries, current_position, current_step, ttl, cap) ==
    LET top == Prefix(SortedByKey(Filtered(entries, current_position,
                                           current_step, ttl)), cap)
    IN [i \in 1..Len(top) |-> <<top[i][1], top[i][2]>>]

\* the arguments of a call of retrieve_memory_for_prompt
Arguments(current_position, current_step, ttl, cap, target_only, players) ==
    [current_position |-> current_position, current_step |-> current_step,
     ttl_steps |-> ttl, max_per_type |-> cap, target_only |-> target_only,
     include_players |-> players]

\* retrieve_memory_for_prompt, include_distance = False; the empty keys are
\* dropped from the result
retrieve_memory_for_prompt(mem, inventories, args) ==
    LET types == RetrievedTypes(inventories, args.target_only,
                                args.include_players)
        names == {types[i] : i \in 1..Len(types)} \cap DOMAIN mem
        out == [t \in names |->
                   TopOf(mem[t], args.current_position, args.current_step,
                         args.ttl_steps, args.max_per_type)]
    IN [t \in {n \in names : out[n] # <<>>} |-> out[t]]

----------------------------------------------------------------------------
(* What the game shows the agent *)

\* the cells a snapshot shows, in the order it lists them: both are next
\* to the cell <<1, 1>>
ScanOrder == <<<<1, 2>>, <<2, 1>>>>
Cells == {ScanOrder[i] : i \in 1..Len(ScanOrder)}

Listed(cells) == SelectSeq(ScanOrder, LAMBDA c : c \in cells)

\* the snapshot with these sightings (entity type, cell)
EgoState(sightings) ==
    [entity_type \in EntityNames |->
        LET cells == Listed({c \in Cells : <<entity_type, c>> \in sightings})
        IN IF entity_type \in {player_key, opponent_key}
           THEN [i \in 1..Len(cells) |-> <<cells[i], "north">>]
           ELSE cells]

\* a player is at one place
OnePlaceEach(sightings) ==
    \A p \in {player_key, opponent_key} :
        Cardinality({c \in Cells : <<p, c>> \in sightings}) <= 1

\* a row of yellow boxes, seen from the cell <<1, 1>>
Field == [x \in 1..FieldSize |-> <<x, 3>>]

FieldState ==
    [entity_type \in EntityNames |->
        CASE entity_type = "yellow_box" -> Field
          [] entity_type = player_key -> <<<<<<1, 1>>, "north">>>>
          [] OTHER -> <<>>]

Snapshots ==
    {EgoState(s) : s \in {t \in SUBSET (EntityNames \X Cells) :
                              Cardinality(t) <= Len(ScanOrder) /\ OnePlaceEach(t)}}
    \cup {FieldState}

----------------------------------------------------------------------------
(* The caller's loop and the memory operations *)

NotRetrieved == [by |-> "none"]

\* what a call made now returns, kept with what it was asked
Retrieval(by, args) ==
    [by |-> by, args |-> args,
     out |-> retrieve_memory_for_prompt(memory_states, next_inventories, args)]

\* the game goes on by one tick
GameStep ==
    /\ now < MaxTicks * Stride
    /\ now' = now + Stride
    /\ retrieved' = NotRetrieved
    /\ UNCHANGED <<memory_states, controller, executor, sent>>

\* update_memory(state, step) with a snapshot of this tick, which is stored
\* before the tick's prompt is built
UpdateMemory ==
    /\ retrieved = NotRetrieved
    /\ \E ego_state \in Snapshots :
           memory_states' = update_memory(memory_states, ego_state, now)
    /\ retrieved' = NotRetrieved
    /\ UNCHANGED <<now, controller, executor, sent>>

\* the calls of retrieve_memory_for_prompt that are followed in a tick: one,
\* and after it the same call with a larger ttl
FollowedCall(args) ==
    \/ retrieved = NotRetrieved
    \/ /\ retrieved.by = "retrieve"
       /\ args.ttl_steps > retrieved.args.ttl_steps
       /\ args = [retrieved.args EXCEPT !.ttl_steps = args.ttl_steps]

\* RetrieveMemoryForPrompt with a bug: the entries found stale are deleted
RetrieveAndPurge ==
    /\ \E current_position \in {<<1, 1>>, None},
          ttl \in {ttl_steps, MaxTicks * Stride},
          cap \in {1, max_per_type},
          target_only \in BOOLEAN,
          include_players \in BOOLEAN :
           LET args == Arguments(current_position, now, ttl, cap,
                                 target_only, include_players)
           IN /\ FollowedCall(args)
              /\ retrieved' = Retrieval("retrieve", args)
              /\ memory_states' =
                     [t \in DOMAIN memory_states |->
                         SelectSeq(memory_states[t],
                                   LAMBDA e : ~Stale(e, now, ttl))]
    /\ UNCHANGED <<now, controller, executor, sent>>

\* retrieve_memory_for_prompt, called at this tick: it reads
\* self.memory_states and assigns to locals only
RetrieveMemoryForPrompt ==
    /\ \E current_position \in {<<1, 1>>, None},
          ttl \in {ttl_steps, MaxTicks * Stride},
          cap \in {1, max_per_type},
          target_only \in BOOLEAN,
          include_players \in BOOLEAN :
           LET args == Arguments(current_position, now, ttl, cap,
                                 target_only, include_players)
           IN /\ FollowedCall(args)
              /\ retrieved' = Retrieval("retrieve", args)
    /\ UNCHANGED <<memory_states, now, controller, executor, sent>>

\* generate_hls_user_message(state, step): the retrieved memories of the
\* prompt, for the position the snapshot gives the agent (the snapshot
\* holds the agent: line 109 raises IndexError on one that does not)
GenerateHlsUserMessage ==
    /\ retrieved = NotRetrieved
    /\ \E ego_state \in Snapshots :
           /\ ego_state[agent_id] # <<>>
           /\ retrieved' =
                  Retrieval("hls",
                            Arguments(ego_state[agent_id][1][1], now,
                                      ttl_steps, max_per_type, TRUE, TRUE))
    /\ UNCHANGED <<memory_states, now, controller, executor, sent>>

----------------------------------------------------------------------------
(* ActionQueue/Executor: get_actions_from_plan, act and update_state.  A   *)
(* dict whose order matters is the sequence of its items <<key, value>>,   *)
(* an occupancy grid is the set of its cells that hold 1.                  *)

\* width and height of the occupancy grid
GridWidth == 3
GridHeight == 4
\* primitive actions the queue holds at most
MaxQueued == 2

GridCells == (0..(GridWidth - 1)) \X (0..(GridHeight - 1))

\* key.split("-"): the player and the orientation a player's key names
KeySplit ==
    ("player_0-N" :> <<"player_0", "N">>) @@ ("player_0-S" :> <<"player_0", "S">>)
    @@ ("player_1-N" :> <<"player_1", "N">>)

\* label == l or label.startswith(l), for the labels and keys there are
startswith(label, l) ==
    label = l \/ (label \in DOMAIN KeySplit /\ KeySplit[label][1] = l)

\* an observation: state["global"] holds the walls and a key for each player
\* in play, state[agent_id] what the agent sees
GameState(players, ego) ==
    [global |-> [wall |-> wall_locations, players |-> players], ego |-> ego]

\* the agent stands at <<1, 1>>, whose only free neighbour is <<1, 2>>, with
\* nothing known, ground, a box or the opponent there; or further on; or it
\* is out of play.  What the agent sees holds its own key while it is in play
GameStates ==
    {GameState(<<<<"player_0-N", <<<<1, 1>>>>>>>>,
               <<<<"player_0-N", {<<1, 1>>}>>>> \o ego) :
        ego \in {<<>>,
                 <<<<"ground", {<<1, 2>>, <<1, 3>>}>>>>,
                 <<<<"yellow_box", {<<1, 2>>, <<1, 3>>}>>>>}}
    \cup {GameState(<<<<"player_1-N", <<<<1, 2>>>>>>, <<"player_0-N", <<<<1, 1>>>>>>>>,
                    <<<<"player_0-N", {<<1, 1>>}>>, <<"player_1-N", {<<1, 2>>}>>>>),
          GameState(<<<<"player_0-S", <<<<1, 3>>>>>>>>,
                    <<<<"player_0-S", {<<1, 3>>}>>>>),
          GameState(<<<<"player_1-N", <<<<1, 2>>>>>>>>, <<>>)}

\* combine_all_known_states with a bug: what the agent remembers is left out
combine_seen_states(state, mem) ==
    <<<<"wall", state.global.wall>>>>
    \o SelectSeq(state.ego, LAMBDA item : item[1] \notin {"inventory", "wall"})

\* combine_all_known_states: the walls, what the agent sees, then what it
\* remembers, in the order the dict gets its keys
combine_all_known_states(state, mem) ==
    LET seen == SelectSeq(state.ego,
                          LAMBDA item : item[1] \notin {"inventory", "wall"})
        own == <<<<"wall", state.global.wall>>>> \o seen
        held(key) ==
            IF key \in DOMAIN mem
            THEN {entry_loc(mem[key][i]) : i \in 1..Len(mem[key])}
            ELSE {}
        added == SelectSeq(EntityTypes, LAMBDA key : key \notin {own[i][1] : i \in 1..Len(own)})
    IN [i \in 1..Len(own) |-> <<own[i][1], own[i][2] \cup held(own[i][1])>>]
       \o [i \in 1..Len(added) |-> <<added[i], held(added[i])>>]

\* the key of the last item that lists the cell, "None" when none does
KeyOf(states, cell) ==
    LET holders == {i \in 1..Len(states) : cell \in states[i][2]}
    IN IF holders = {} THEN "None"
       ELSE states[CHOOSE i \in holders : \A j \in holders : j <= i][1]

\* build_grid_from_states: a cell holds what the last item listing it says
build_grid_from_states(states, labels, ignore) ==
    LET listed == UNION {states[i][2] : i \in 1..Len(states)}
    IN {cell \in (GridCells \cap listed) \ ignore :
           LET key == KeyOf(states, cell)
           IN \E l \in labels : startswith(key, l)}

\* the labels of the obstacles: all of them, and at the last tier
AllLabels == {"wall", "yellow_box", "blue_box", "purple_box", opponent_key}

\* the labels of the last tier with a bug: the walls are left out too
NoLabels == {}

WallsOnly == {"wall"}

\* The primitive actions
Step(cell) == [kind |-> "STEP", to |-> cell]
Interact(target) == [kind |-> "INTERACT", target |-> target]

(* action_funcs.move_to(start, goal, grid, orientation): a shortest route  *)
(* over the cells that hold 0, from neighbour to neighbour                 *)

\* the cells next to a cell
Neighbours(cell) ==
    {<<cell[1] + 1, cell[2]>>, <<cell[1] - 1, cell[2]>>,
     <<cell[1], cell[2] + 1>>, <<cell[1], cell[2] - 1>>}

\* the cells at 0, 1, 2, ... steps from the start
RECURSIVE Rings(_, _, _)
Rings(free, rings, seen) ==
    LET next == (free \cap UNION {Neighbours(from) : from \in rings[Len(rings)]})
                \ seen
    IN IF next = {} THEN rings
       ELSE Rings(free, Append(rings, next), seen \cup next)

\* a route back from a cell of the k-th ring to the start
RECURSIVE Route(_, _, _)
Route(rings, k, cell) ==
    IF k = 1 THEN <<cell>>
    ELSE Append(Route(rings, k - 1,
                      CHOOSE from \in rings[k - 1] : from \in Neighbours(cell)),
                cell)

\* the orientation after a step
Heading(from, to) ==
    CASE to[2] < from[2] -> "N"
      [] to[2] > from[2] -> "S"
      [] to[1] > from[1] -> "E"
      [] OTHER -> "W"

move_to(start, goal, grid, facing) ==
    LET rings == Rings(GridCells \ grid, <<{start}>>, {start})
        at == {k \in 1..Len(rings) : goal \in rings[k]}
        paths == IF at = {} THEN <<>>
                 ELSE Route(rings, CHOOSE k \in at : TRUE, goal)
    IN [paths |-> paths,
        actions |-> [i \in 1..(Len(paths) - 1) |-> Step(paths[i + 1])],
        current_orient |->
            IF Len(paths) >= 2
            THEN Heading(paths[Len(paths) - 1], paths[Len(paths)])
            ELSE facing,
        path_found |-> at # {}]

\* check_plan_one_step: the grid the caller searches first, all obstacles
\* but the waypoints of the command
plan_grid(state, mem, command) ==
    build_grid_from_states(combine_all_known_states(state, mem), AllLabels,
                           {command.start, command.goal})

\* the searches of get_actions_from_plan for a move_to: on the caller's
\* grid, then without the obstacles of the goal's own type, then with the
\* walls only; tier is the search that was the last
Searched(command, grid, state, mem, facing) ==
    LET known == combine_all_known_states(state, mem)
        first == move_to(command.start, command.goal, grid, facing)
        second ==
            move_to(command.start, command.goal,
                    build_grid_from_states(
                        known, AllLabels \ {KeyOf(known, command.goal)},
                        {command.goal}),
                    facing)
        third ==
            move_to(command.start, command.goal,
                    build_grid_from_states(known, WallsOnly, {command.goal}),
                    facing)
    IN IF first.path_found THEN [tier |-> 0, search |-> first]
       ELSE IF second.path_found THEN [tier |-> 1, search |-> second]
       ELSE [tier |-> 2, search |-> third]

\* the plans a subgoal response may propose
ProposedPlans ==
    {<<>>,
     <<Explore>>,
     <<Explore, MoveTo(<<1, 1>>, <<2, 1>>)>>,
     <<MoveTo(<<1, 1>>, <<1, 2>>), MoveTo(<<1, 2>>, <<2, 1>>)>>,
     <<MoveTo(<<1, 1>>, <<1, 3>>), MoveTo(<<1, 3>>, <<2, 2>>)>>,
     <<MoveTo(<<1, 1>>, <<0, 0>>)>>,
     <<FireAt(<<1, 3>>)>>}

ProposedResponses ==
    {EmptyDict} \cup {[action_plan |-> plan] : plan \in ProposedPlans}

\* what subgoal_module returns: a response that is a valid plan, with the
\* cursor, or {} when the retries have run out.  The cursor starts at 0 and
\* is moved on by the caller
HandedPlans ==
    {EmptyDict}
    \cup {[action_plan |-> plan, subgoal_num |-> n] :
             plan \in {p \in ProposedPlans : is_valid_plan([action_plan |-> p]).valid},
             n \in 0..1}

\* __init__: the queue is empty; the other attributes are not yet there
NewExecutor ==
    /\ action_plan = <<>>
    /\ subgoal_num = 0
    /\ all_actions = <<>>
    /\ pos = None
    /\ orientation = "None"
    /\ destination = None
    /\ attributes = {}
    /\ result = [op |-> "__init__"]

\* is_valid_plan(state, goals_and_actions), as parse_multiple_llm_responses
\* calls it on a response
IsValidPlan ==
    /\ \E goals_and_actions \in ProposedResponses :
           result' = [op |-> "is_valid_plan", args |-> goals_and_actions,
                      value |-> is_valid_plan(goals_and_actions)]
    /\ UNCHANGED <<action_plan, subgoal_num, all_actions, pos, orientation,
                   destination, attributes, controller, memory, sent>>

\* get_actions_from_plan(goals_and_actions, grid, state)
GetActionsFromPlan ==
    \E goals_and_actions \in HandedPlans, state \in GameStates :
        LET ended(value) ==
                [op |-> "get_actions_from_plan", args |-> goals_and_actions,
                 value |-> value]
        IN
        /\ UNCHANGED <<controller, memory, sent>>
        /\ IF "action_plan" \notin DOMAIN goals_and_actions
           THEN /\ result' = ended([kind |-> "error_parsing_goals_and_actions"])
                /\ UNCHANGED <<action_plan, subgoal_num, all_actions, pos,
                               orientation, destination, attributes>>
           ELSE IF "subgoal_num" \notin DOMAIN goals_and_actions
           THEN /\ action_plan' = goals_and_actions.action_plan
                /\ attributes' = attributes \cup {"action_plan"}
                /\ result' = ended([kind |-> "error_parsing_goals_and_actions"])
                /\ UNCHANGED <<subgoal_num, all_actions, pos, orientation,
                               destination>>
           ELSE
           /\ goals_and_actions.subgoal_num < Len(goals_and_actions.action_plan)
           /\ action_plan' = goals_and_actions.action_plan
           /\ subgoal_num' = goals_and_actions.subgoal_num
           /\ LET command ==
                      goals_and_actions.action_plan[goals_and_actions.subgoal_num + 1]
                  got == attributes \cup {"action_plan", "subgoal_num"}
              IN
              CASE command.func = "move_to" /\ "orientation" \notin attributes ->
                       /\ attributes' = got
                       /\ result' = ended([kind |-> "raised", exception |-> "AttributeError"])
                       /\ UNCHANGED <<all_actions, pos, orientation, destination>>
                [] command.func = "move_to" /\ "orientation" \in attributes ->
                       LET found == Searched(command,
                                             plan_grid(state, memory_states, command),
                                             state, memory_states, orientation)
                       IN /\ Len(all_actions) + Len(found.search.actions) <= MaxQueued
                          /\ pos' = IF Len(found.search.paths) > 0
                                    THEN found.search.paths[Len(found.search.paths)]
                                    ELSE pos
                          /\ orientation' = found.search.current_orient
                          /\ destination' = command.goal
                          /\ attributes' =
                                 got \cup {"destination"}
                                 \cup (IF Len(found.search.paths) > 0
                                       THEN {"pos"} ELSE {})
                          /\ all_actions' = all_actions \o found.search.actions
                          /\ result' = ended(NoMessage) @@ found
                                        @@ [state |-> state]
                [] command.func = "fire_at" ->
                       /\ Len(all_actions) < MaxQueued
                       /\ all_actions' = Append(all_actions, Interact(command.target))
                       /\ attributes' = got
                       /\ result' = ended(NoMessage)
                       /\ UNCHANGED <<pos, orientation, destination>>
                [] OTHER ->
                       /\ attributes' = got
                       /\ result' = ended([kind |-> "error_parsing_function_arguments"])
                       /\ UNCHANGED <<all_actions, pos, orientation, destination>>

\* act with a bug: the newest action is returned
ActNewestFirst ==
    /\ IF all_actions # <<>>
       THEN /\ result' = [op |-> "act", value |-> all_actions[Len(all_actions)]]
            /\ all_actions' = SubSeq(all_actions, 1, Len(all_actions) - 1)
       ELSE /\ result' = [op |-> "act", value |-> NoMessage]
            /\ UNCHANGED all_actions
    /\ UNCHANGED <<action_plan, subgoal_num, pos, orientation, destination,
                   attributes, controller, memory, sent>>

\* act: the oldest action of the queue, None when it is empty
Act ==
    /\ IF all_actions # <<>>
       THEN /\ result' = [op |-> "act", value |-> Head(all_actions)]
            /\ all_actions' = Tail(all_actions)
       ELSE /\ result' = [op |-> "act", value |-> NoMessage]
            /\ UNCHANGED all_actions
    /\ UNCHANGED <<action_plan, subgoal_num, pos, orientation, destination,
                   attributes, controller, memory, sent>>

\* update_state(state): the position and the orientation are those of the
\* agent's key in state["global"]; the report is about the first move_to of
\* the plan, and is made only if the agent has a goal attribute
UpdateState ==
    \E state \in GameStates :
        LET agent_keys == SelectSeq(state.global.players,
                                    LAMBDA item : startswith(item[1], agent_id))
            moves == SelectSeq(action_plan,
                               LAMBDA command : command.func = "move_to")
            ended(output) ==
                [op |-> "update_state",
                 args |-> state.global.players,
                 value |->
                     IF "goal" \notin attributes THEN NoMessage
                     ELSE IF "action_plan" \notin attributes
                     THEN [kind |-> "raised", exception |-> "AttributeError"]
                     ELSE IF moves = <<>> THEN NoMessage
                     ELSE output]
        IN
        /\ UNCHANGED <<action_plan, subgoal_num, all_actions, destination,
                       controller, memory, sent>>
        /\ IF agent_keys # <<>>
           THEN /\ pos' = agent_keys[1][2][1]
                /\ orientation' = KeySplit[agent_keys[1][1]][2]
                /\ attributes' = attributes \cup {"pos", "orientation"}
                /\ result' =
                       ended([kind |-> "reached_goal_position",
                              goal_pos |-> moves[1].goal,
                              reached |-> agent_keys[1][2][1] = moves[1].goal])
           ELSE /\ UNCHANGED <<pos, orientation, attributes>>
                /\ result' = ended([kind |-> "out_of_game"])

\* what check_plan_one_step returns when act returns None
Noop == [kind |-> "NOOP"]

\* the agent's own items of what it sees: self.agent_id in key
OwnItems(state) ==
    SelectSeq(state.ego, LAMBDA item : startswith(item[1], agent_id))

\* check_next_state_type: the key of the first item of what the agent sees
\* that lists the position
SquareType(state, new_pos) ==
    LET holders == {i \in 1..Len(state.ego) : new_pos \in state.ego[i][2]}
    IN IF holders = {} THEN "Unknown square type"
       ELSE state.ego[CHOOSE i \in holders : \A j \in holders : i <= j][1]

\* check_plan_one_step(action, state, env, agent_goals_and_actions), called
\* with the action act has just returned, an observation with the agent in
\* play and the plan that was lowered last.  The position a movement leads
\* to is the agent's own or one next to it, by its orientation and the action
CheckPlanOneStep ==
    \E state \in {s \in GameStates : OwnItems(s) # <<>>} :
        /\ result.op = "act"
        /\ result.value # NoMessage
        /\ {"action_plan", "subgoal_num"} \subseteq attributes
        /\ subgoal_num < Len(action_plan)
        /\ UNCHANGED <<controller, memory, sent>>
        /\ LET action == result.value
               current_pos == CHOOSE cell \in OwnItems(state)[1][2] : TRUE
               subgoal == action_plan[subgoal_num + 1]
               ended(value) ==
                   [op |-> "check_plan_one_step", args |-> action,
                    value |-> value]
               raised(exception) ==
                   /\ result' = ended([kind |-> "raised", exception |-> exception])
                   /\ UNCHANGED <<action_plan, subgoal_num, all_actions, pos,
                                  orientation, destination, attributes>>
           IN
           IF action.kind # "STEP"
           THEN raised("KeyError")
           ELSE
           \E new_pos \in Neighbours(current_pos) \cup {current_pos} :
               LET next_state_type == SquareType(state, new_pos)
                   command == MoveTo(current_pos, subgoal.goal)
                   found == Searched(command,
                                     plan_grid(state, memory_states, command),
                                     state, memory_states, orientation)
               IN
               CASE next_state_type = "ground" ->
                        /\ result' = ended(action)
                        /\ UNCHANGED <<action_plan, subgoal_num, all_actions,
                                       pos, orientation, destination, attributes>>
                 [] next_state_type # "ground" /\ "destination" \notin attributes ->
                        raised("AttributeError")
                 [] /\ next_state_type # "ground"
                    /\ "destination" \in attributes
                    /\ (new_pos = destination \/ subgoal.func = "fire_at") ->
                        /\ result' = ended(action)
                        /\ UNCHANGED <<action_plan, subgoal_num, all_actions,
                                       pos, orientation, destination, attributes>>
                 [] /\ next_state_type # "ground"
                    /\ "destination" \in attributes
                    /\ new_pos # destination
                    /\ subgoal.func \notin {"fire_at", "move_to"} ->
                        raised("ValueError")
                 [] /\ next_state_type # "ground"
                    /\ "destination" \in attributes
                    /\ new_pos # destination
                    /\ subgoal.func = "move_to"
                    /\ "orientation" \notin attributes ->
                        /\ action_plan' =
                               [action_plan EXCEPT ![subgoal_num + 1] = command]
                        /\ all_actions' = <<>>
                        /\ result' = ended([kind |-> "raised",
                                            exception |-> "AttributeError"])
                        /\ UNCHANGED <<subgoal_num, pos, orientation,
                                       destination, attributes>>
                 [] OTHER ->
                        /\ Len(found.search.actions) <= MaxQueued
                        /\ action_plan' =
                               [action_plan EXCEPT ![subgoal_num + 1] = command]
                        /\ pos' = IF Len(found.search.paths) > 0
                                  THEN found.search.paths[Len(found.search.paths)]
                                  ELSE pos
                        /\ orientation' = found.search.current_orient
                        /\ destination' = command.goal
                        /\ attributes' =
                               attributes
                               \cup (IF Len(found.search.paths) > 0
                                     THEN {"pos"} ELSE {})
                        /\ all_actions' =
                               IF found.search.actions = <<>> THEN <<>>
                               ELSE Tail(found.search.actions)
                        /\ result' =
                               ended(IF found.search.actions = <<>> THEN Noop
                                     ELSE Head(found.search.actions))
                               @@ found @@ [state |-> state]
                        /\ UNCHANGED subgoal_num

----------------------------------------------------------------------------
(* AsyncGPTController.get_response and the LLM it calls, AsyncChatLLM.  A  *)
(* number with a fraction is held as a string.                             *)

NotSent == [force |-> "none yet"]

\* get_schema with a bug: there is no schema for "tuple"
get_schema_of_dict(mode) ==
    IF mode = "dict" THEN "STEP_JSON_SCHEMA" ELSE "None"

\* structured_schemas.get_schema(mode)
get_schema(mode) ==
    CASE mode = "dict" -> "STEP_JSON_SCHEMA"
      [] mode = "tuple" -> "TUPLE2_SCHEMA"
      [] OTHER -> "None"

\* _merge_extra_body(base, addition)
_merge_extra_body(base, addition) ==
    LET eb0 == Update(IF "extra_body" \in DOMAIN base
                      THEN base["extra_body"] ELSE EmptyDict,
                      addition)
    IN IF DOMAIN eb0 # {} THEN Update(base, [extra_body |-> eb0]) ELSE base

\* get_response(messages, temperature, force=force): the keyword arguments
\* self.llm is called with
get_response(model_args, model, temperature, force) ==
    LET base_args == Update(model_args,
                            [temperature |-> temperature, top_p |-> "0.9",
                             model |-> model])
        schema == get_schema(IF force \in {"dict", "tuple"} THEN force ELSE "none")
    IN IF schema # "None"
       THEN _merge_extra_body(base_args,
                              [guided_json |-> schema,
                               guided_decoding_backend |-> "lm-format-enforcer"])
       ELSE base_args

\* AsyncChatLLM.__call__(messages=messages, **kwargs) of an LLM made with no
\* default keyword arguments: what client.chat.completions.create is called
\* with
AsyncChatLLM_call(model, messages, kwargs) ==
    LET reordered ==
            IF model = "mistralai/Mixtral-8x7B-Instruct-v0.1" /\ Len(messages) >= 2
            THEN SubSeq(messages, 1, Len(messages) - 2)
                 \o <<messages[Len(messages)],
                      [messages[Len(messages) - 1] EXCEPT !.role = "assistant"]>>
            ELSE messages
        structured_schema ==
            IF "structured_schema" \in DOMAIN kwargs
            THEN kwargs["structured_schema"] ELSE "None"
        guided ==
            IF "guided_backend" \in DOMAIN kwargs
            THEN kwargs["guided_backend"] ELSE "lm-format-enforcer"
        given == IF "extra_body" \in DOMAIN kwargs
                 THEN kwargs["extra_body"] ELSE EmptyDict
        extra_body ==
            IF structured_schema # "None"
            THEN Update(given, [guided_json |-> structured_schema,
                                guided_decoding_backend |-> guided])
            ELSE given
        rest == [key \in DOMAIN kwargs
                            \ {"extra_body", "structured_schema", "guided_backend"}
                     |-> kwargs[key]]
    IN Update(rest, [messages |-> reordered, extra_body |-> extra_body])

\* controller.run(expertise, message, temperature, force=force), or with no
\* force given, up to the call of the client; the controller was made with
\* no model arguments, with a token limit, or with an extra_body of its own
Run ==
    /\ \E model \in {"meta-llama/Meta-Llama-3-8B-Instruct",
                      "mistralai/Mixtral-8x7B-Instruct-v0.1"},
          model_args \in {EmptyDict, [max_tokens |-> 2000],
                          [extra_body |-> [top_k |-> 40]]},
          message \in {"msg1", "msg2"},
          temperature \in {"0.1", "0.7"},
          given \in {"dict", "tuple", "none", "next_inventories", "subgoal",
                     "omitted"} :
           LET force == IF given = "omitted" THEN "none" ELSE given
               messages == <<[role |-> "system", content |-> "expertise"],
                             [role |-> "user", content |-> message]>>
           IN sent' = [force |-> given,
                       model_args |-> model_args,
                       payload |->
                           AsyncChatLLM_call(
                               model, messages,
                               get_response(model_args, model, temperature, force))]
    /\ UNCHANGED <<controller, memory, executor>>

----------------------------------------------------------------------------
(* Extraction of a dict from a response text: extract_dict and             *)
(* _parse_json_like_object on the characters of the text.  A text is a     *)
(* sequence of tokens separated by blanks: a word of prose; a brace; an    *)
(* object written {"a": "x"}, {'b': 'y'} or {'c': true}; the opening line  *)
(* of a fenced block, ```json and a newline; its closing line, a newline   *)
(* and ```; and the two tags of a think block.                             *)

\* tokens in the longest text
MaxTokens == 4

ResponseTokens ==
    {"prose", "{", "}", "dq_object", "sq_object", "sq_key_object",
     "fence_open", "fence_close", "<think>", "</think>"}

ResponseTexts == UNION {[1..n -> ResponseTokens] : n \in 0..MaxTokens}

ObjectTokens == {"dq_object", "sq_object", "sq_key_object"}

\* the dict an object token stands for
Payload(token) ==
    CASE token = "dq_object" -> [a |-> "x"]
      [] token = "sq_object" -> [b |-> "y"]
      [] token = "sq_key_object" -> [c |-> TRUE]

\* a parser that reads objects of these styles: the text must be one such
\* object, or the two braces of the empty object, and nothing else
Read(s, styles) ==
    IF Len(s) = 1 /\ s[1] \in styles
    THEN [raised |-> FALSE, value |-> Payload(s[1])]
    ELSE IF s = <<"{", "}">>
    THEN [raised |-> FALSE, value |-> EmptyDict]
    ELSE ParseRaised

\* json.loads reads double-quoted strings and true
json_loads(s) == Read(s, {"dq_object"})

\* ast.literal_eval reads strings in either quotes, and no true
literal_eval(s) == Read(s, {"dq_object", "sq_object"})

\* json.loads(re.sub(r"'", '"', blob))
json_loads_requoted(s) == Read(s, ObjectTokens)

\* the first and the last place of s that hold one of the tokens
FirstOf(s, tokens) ==
    CHOOSE i \in 1..Len(s) :
        s[i] \in tokens /\ \A j \in 1..(i - 1) : s[j] \notin tokens

LastOf(s, tokens) ==
    CHOOSE i \in 1..Len(s) :
        s[i] \in tokens /\ \A j \in (i + 1)..Len(s) : s[j] \notin tokens

\* s[s.find("{") : s.rfind("}") + 1] when 0 <= i < j, which is also what
\* re.search(r"\{.*\}", text, flags=re.S) matches
FirstToLastBrace(s) ==
    LET opening == ObjectTokens \cup {"{"}
        closing == ObjectTokens \cup {"}"}
    IN IF \/ \A i \in 1..Len(s) : s[i] \notin opening
          \/ \A i \in 1..Len(s) : s[i] \notin closing
       THEN [found |-> FALSE]
       ELSE LET i == FirstOf(s, opening)
                j == LastOf(s, closing)
            IN IF i < j \/ (i = j /\ s[i] \in ObjectTokens)
               THEN [found |-> TRUE, blob |-> SubSeq(s, i, j)]
               ELSE [found |-> FALSE]

\* re.sub(r"<think>.*?</think>", "", s, flags=re.DOTALL)
RECURSIVE Unthink(_)
Unthink(s) ==
    IF s = <<>> THEN <<>>
    ELSE IF Head(s) = "<think>" /\ \E i \in 2..Len(s) : s[i] = "</think>"
    THEN Unthink(SubSeq(s, FirstOf(Tail(s), {"</think>"}) + 2, Len(s)))
    ELSE <<Head(s)>> \o Unthink(Tail(s))

\* lines 735-738: a text that starts with a fenced block becomes the inside
\* of the block (a text that starts with the closing line of a block starts
\* with ``` too, but the pattern asks for a newline after the ```)
Unfenced(s) ==
    IF /\ s # <<>>
       /\ Head(s) = "fence_open"
       /\ \E i \in 2..Len(s) : s[i] = "fence_close"
    THEN SubSeq(s, 2, FirstOf(Tail(s), {"fence_close"}))
    ELSE s

\* extract_dict with a bug: the text is only read as a whole
extract_dict_whole(response) ==
    LET s == Unfenced(Unthink(response))
    IN IF ~json_loads(s).raised THEN json_loads(s).value
       ELSE IF ~literal_eval(s).raised THEN literal_eval(s).value
       ELSE EmptyDict

\* extract_dict(response) of a text
extract_dict_from(response) ==
    LET s == Unfenced(Unthink(response))
        cand == FirstToLastBrace(s)
    IN IF ~json_loads(s).raised THEN json_loads(s).value
       ELSE IF cand.found /\ ~json_loads(cand.blob).raised
       THEN json_loads(cand.blob).value
       ELSE IF cand.found /\ ~literal_eval(cand.blob).raised
       THEN literal_eval(cand.blob).value
       ELSE IF ~literal_eval(s).raised THEN literal_eval(s).value
       ELSE EmptyDict

\* _parse_json_like_object(text) of a text: the fences are taken out
\* wherever they are
_parse_json_like_object_from(text) ==
    LET s == SelectSeq(text, LAMBDA t : t \notin {"fence_open", "fence_close"})
        m == FirstToLastBrace(s)
    IN IF ~m.found THEN ParseRaised
       ELSE IF ~json_loads(m.blob).raised THEN json_loads(m.blob)
       ELSE IF ~literal_eval(m.blob).raised THEN literal_eval(m.blob)
       ELSE json_loads_requoted(m.blob)

----------------------------------------------------------------------------
(* The agent after __init__ *)

Init ==
    /\ pc = "idle"
    /\ interaction_num = 0
    /\ interaction_history = <<>>
    /\ opponent_hypotheses = EmptyDict
    /\ good_hypothesis_found = FALSE
    /\ possible_opponent_strategy = EmptyDict
    /\ next_inventories = DefaultNextInventories
    /\ tries = 0
    /\ sorted_keys = <<>>
    /\ inflight = <<>>
    /\ goal_and_plan = EmptyDict
    /\ outcome = NotRun
    /\ onlyMalformed = TRUE
    /\ memory_states = EmptyMemory
    /\ now = 0
    /\ retrieved = NotRetrieved
    /\ NewExecutor
    /\ sent = NotSent

\* the service may answer anything, over MaxDuels duels
\* (no hypothesis gets above the threshold in so few duels, so the good
\* hypothesis path is not taken: CommitResume is left to the deeper runs)
Next ==
    \/ OnInteraction(MaxDuels)
    \/ TwoLevelPlanAfterInteraction
    \/ TwoLevelPlanNoInteraction
    \/ ServiceReplies("any")
    \/ InferenceResume
    \/ StrategyResume
    \/ NegotiationJoin
    \/ HlsResume
    \/ SubgoalResume

Spec == Init /\ [][Next]_vars

\* every answer is accepted, over DeepDuels duels
NextDeep ==
    \/ OnInteraction(DeepDuels)
    \/ TwoLevelPlanAfterInteraction
    \/ TwoLevelPlanNoInteraction
    \/ ServiceReplies("deep")
    \/ Resume

SpecDeep == Init /\ [][NextDeep]_vars

\* every answer is accepted and no inferred inventory ties, over LongDuels
NextLong ==
    \/ OnInteraction(LongDuels)
    \/ TwoLevelPlanAfterInteraction
    \/ TwoLevelPlanNoInteraction
    \/ ServiceReplies("long")
    \/ Resume

SpecLong == Init /\ [][NextLong]_vars

\* duels played for the bank to hold a hypothesis that is not scored
BankDuels == 10

\* as NextLong, over BankDuels duels
NextBank ==
    \/ OnInteraction(BankDuels)
    \/ TwoLevelPlanAfterInteraction
    \/ TwoLevelPlanNoInteraction
    \/ ServiceReplies("long")
    \/ Resume

SpecBank == Init /\ [][NextBank]_vars

\* The step the controller takes next runs into breakpoint() (line 646: the
\* plan loop is left without an action plan): the debugger takes over, and
\* the run goes on when whoever is at its prompt lets it
DebuggerPrompt ==
    /\ pc \in {"subgoal", "subgoal_retry"}
    /\ AllReplied
    /\ LET plan == parse_multiple_llm_responses(inflight[1].reply)
           counter == IF pc = "subgoal" THEN 0 ELSE tries + 1
       IN /\ ~PlanLoopGoesOn(is_valid_plan(plan).valid, counter)
          /\ "action_plan" \notin DOMAIN plan

\* Spec with the scheduling the run can count on: every request is answered
\* in the end, and the event loop resumes the controller once the answers
\* it awaits are in; nothing makes the debugger let go
SpecLive ==
    /\ Init
    /\ [][Next]_vars
    /\ WF_vars(ServiceReplies("any"))
    /\ WF_vars(Resume /\ ~DebuggerPrompt)

\* every answer is accepted but those to next-inventory requests, which may
\* be prose, over DeepDuels duels
NextMixed ==
    \/ OnInteraction(DeepDuels)
    \/ TwoLevelPlanAfterInteraction
    \/ TwoLevelPlanNoInteraction
    \/ ServiceReplies("mixed")
    \/ Resume

SpecMixed == Init /\ [][NextMixed]_vars

\* every answer is accepted and an inference answer may hold more keys than
\* the one it is asked for, over MaxDuels duels
NextKeys ==
    \/ OnInteraction(MaxDuels)
    \/ TwoLevelPlanAfterInteraction
    \/ TwoLevelPlanNoInteraction
    \/ ServiceReplies("keys")
    \/ InferenceResume
    \/ StrategyResume
    \/ NegotiationJoin
    \/ HlsResume
    \/ SubgoalResume

SpecKeys == Init /\ [][NextKeys]_vars

\* a target the controller may have committed when the memory is used: it
\* wants rock only, so that target_only leaves two box types out (without
\* target_only all three are retrieved, as they are for the default target)
RockOnly ==
    [my_next_inventory |-> Inv(5, 0, 0),
     predicted_opponent_next_inventory |-> Inv(1, 1, 5)]

\* the agent with an empty memory and this target
InitMemory ==
    /\ pc = "idle"
    /\ interaction_num = 0
    /\ interaction_history = <<>>
    /\ opponent_hypotheses = EmptyDict
    /\ good_hypothesis_found = FALSE
    /\ possible_opponent_strategy = EmptyDict
    /\ next_inventories = RockOnly
    /\ tries = 0
    /\ sorted_keys = <<>>
    /\ inflight = <<>>
    /\ goal_and_plan = EmptyDict
    /\ outcome = NotRun
    /\ onlyMalformed = TRUE
    /\ memory_states = EmptyMemory
    /\ now = 0
    /\ retrieved = NotRetrieved
    /\ NewExecutor
    /\ sent = NotSent

\* the caller's loop over the memory: snapshots are stored and memories
\* retrieved at every tick, in any order
NextMemory ==
    \/ GameStep
    \/ UpdateMemory
    \/ RetrieveMemoryForPrompt
    \/ GenerateHlsUserMessage

SpecMemory == InitMemory /\ [][NextMemory]_vars

\* The executor, as its caller finds it: the memory may hold a box it saw
\* at <<1, 2>>, and the caller may have given the agent a goal attribute
InitExecutor ==
    /\ pc = "idle"
    /\ interaction_num = 0
    /\ interaction_history = <<>>
    /\ opponent_hypotheses = EmptyDict
    /\ good_hypothesis_found = FALSE
    /\ possible_opponent_strategy = EmptyDict
    /\ next_inventories = DefaultNextInventories
    /\ tries = 0
    /\ sorted_keys = <<>>
    /\ inflight = <<>>
    /\ goal_and_plan = EmptyDict
    /\ outcome = NotRun
    /\ onlyMalformed = TRUE
    /\ memory_states \in
           {EmptyMemory,
            [EmptyMemory EXCEPT !["purple_box"] = <<<<<<1, 2>>, 0>>>>]}
    /\ now = 0
    /\ retrieved = NotRetrieved
    /\ action_plan = <<>>
    /\ subgoal_num = 0
    /\ all_actions = <<>>
    /\ pos = None
    /\ orientation = "None"
    /\ destination = None
    /\ attributes \in SUBSET {"goal"}
    /\ result = [op |-> "__init__"]
    /\ sent = NotSent

\* the caller's loop over the executor: plans are checked and lowered, the
\* queue is drained and the observations are taken in, in any order
NextExecutor ==
    \/ IsValidPlan
    \/ GetActionsFromPlan
    \/ Act
    \/ UpdateState
    \/ CheckPlanOneStep

SpecExecutor == InitExecutor /\ [][NextExecutor]_vars

\* requests to the controller, one after the other
SpecController == Init /\ [][Run]_vars

\* the agent after __init__, but for the last call
BeforeAnyCall ==
    /\ pc = "idle"
    /\ interaction_num = 0
    /\ interaction_history = <<>>
    /\ opponent_hypotheses = EmptyDict
    /\ good_hypothesis_found = FALSE
    /\ possible_opponent_strategy = EmptyDict
    /\ next_inventories = DefaultNextInventories
    /\ tries = 0
    /\ sorted_keys = <<>>
    /\ inflight = <<>>
    /\ goal_and_plan = EmptyDict
    /\ outcome = NotRun
    /\ onlyMalformed = TRUE
    /\ memory_states = EmptyMemory
    /\ now = 0
    /\ retrieved = NotRetrieved
    /\ action_plan = <<>>
    /\ subgoal_num = 0
    /\ all_actions = <<>>
    /\ pos = None
    /\ orientation = "None"
    /\ destination = None
    /\ attributes = {}
    /\ sent = NotSent

\* all but the last call stays as it is
OnlyResult ==
    UNCHANGED <<controller, memory, sent, action_plan, subgoal_num,
                all_actions, pos, orientation, destination, attributes>>

\* the service has answered with some text
InitExtraction ==
    /\ BeforeAnyCall
    /\ \E response \in ResponseTexts :
           result = [op |-> "response", args |-> response]

\* self.extract_dict(response)
ExtractDict ==
    /\ result.op = "response"
    /\ result' = [op |-> "extract_dict", args |-> result.args,
                  value |-> extract_dict_from(result.args)]
    /\ OnlyResult

\* _parse_json_like_object(response_text)
ParseJsonLikeObject ==
    /\ result.op = "response"
    /\ result' = [op |-> "_parse_json_like_object", args |-> result.args,
                  value |-> _parse_json_like_object_from(result.args)]
    /\ OnlyResult

\* a response is read by one of the two
SpecExtraction == InitExtraction /\ [][ExtractDict \/ ParseJsonLikeObject]_vars

----------------------------------------------------------------------------
(* plan_pipeline.generate_action_plan_json.  A response is a sequence of    *)
(* tokens separated by blanks: a word of prose; a brace; and an object,     *)
(* which is an action plan of a move_to and a fire_at, a plan of no action, *)
(* a plan whose action has a type the schema does not know, the action plan *)
(* in single quotes, or {"a": "x"}.                                         *)

\* tokens in the longest response
MaxPlanTokens == 2

\* the largest max_tries of a call; 4 is the default
MaxTries == 4

PlanTokens ==
    {"prose", "{", "}", "plan_object", "empty_plan_object",
     "unknown_type_object", "sq_plan_object", "other_object"}

PlanObjectTokens == PlanTokens \ {"prose", "{", "}"}

PlanTexts == UNION {[1..n -> PlanTokens] : n \in 0..MaxPlanTokens}

\* _extract_outer_json(text): text[start:end+1] of the first "{" and the
\* last "}", ValueError when there is none or the last is before the first
_extract_outer_json(text) ==
    LET opening == PlanObjectTokens \cup {"{"}
        closing == PlanObjectTokens \cup {"}"}
    IN IF \/ \A i \in 1..Len(text) : text[i] \notin opening
          \/ \A i \in 1..Len(text) : text[i] \notin closing
       THEN [raised |-> TRUE, error |-> "No JSON object found"]
       ELSE LET start == FirstOf(text, opening)
                end == LastOf(text, closing)
            IN IF start < end \/ (start = end /\ text[start] \in PlanObjectTokens)
               THEN [raised |-> FALSE, value |-> SubSeq(text, start, end)]
               ELSE [raised |-> TRUE, error |-> "No JSON object found"]

\* ActionPlan.model_validate_json(raw).model_dump(): raw must be one JSON
\* object with the key action_plan, a list of actions of the two types
model_validate_json(raw) ==
    CASE raw = <<"plan_object">> ->
             [raised |-> FALSE,
              value |->
                  [action_plan |->
                      <<[type |-> "move_to", src |-> <<1, 1>>, dst |-> <<1, 2>>],
                        [type |-> "fire_at", dst |-> <<1, 3>>]>>]]
      [] raw = <<"empty_plan_object">> ->
             [raised |-> FALSE, value |-> [action_plan |-> <<>>]]
      [] raw = <<"unknown_type_object">> ->
             [raised |-> TRUE, error |-> "action_plan.0: no such type"]
      [] raw \in {<<"other_object">>, <<"{", "}">>} ->
             [raised |-> TRUE, error |-> "action_plan: field required"]
      [] OTHER -> [raised |-> TRUE, error |-> "invalid JSON"]

\* the try block of lines 32-36 on a response
TryBlock(txt) ==
    LET raw == _extract_outer_json(txt)
    IN IF raw.raised THEN raw ELSE model_validate_json(raw.value)

\* the prompt of the first call: the user message and the format rules
FirstPrompt == [user_message |-> "user_message", rules |-> "JSON_RULES"]

\* the prompt after a failure with a bug: the error is left out
RetryPromptBare(e) == FirstPrompt

\* the prompt after a failure, lines 39-43
RetryPrompt(e) == FirstPrompt @@ [previous_output_was_invalid |-> e]

\* generate_action_plan_json is called with some max_tries
InitPipeline ==
    /\ BeforeAnyCall
    /\ \E max_tries \in 0..MaxTries :
           result = [op |-> "generate_action_plan_json", at |-> "loop",
                     max_tries |-> max_tries, calls |-> 0,
                     prompt |-> FirstPrompt, last_txt |-> <<>>]

\* one pass of the loop: the controller is called with the prompt, and the
\* plan of its response is returned or the next prompt is made; after the
\* last pass that failed, ValueError is raised with the last response
Try ==
    \E txt \in PlanTexts :
        /\ result.op = "generate_action_plan_json"
        /\ result.at = "loop"
        /\ result.calls < result.max_tries
        /\ LET plan == TryBlock(txt)
               called == [result EXCEPT !.calls = @ + 1, !.last_txt = txt]
           IN result' =
                  IF ~plan.raised
                  THEN [called EXCEPT !.at = "returned"] @@ [value |-> plan.value]
                  ELSE IF called.calls < result.max_tries
                  THEN [called EXCEPT !.prompt = RetryPrompt(plan.error)]
                  ELSE [called EXCEPT !.at = "raised",
                                      !.prompt = RetryPrompt(plan.error)]
                       @@ [value |-> [kind |-> "raised", exception |-> "ValueError",
                                      last_output |-> txt]]
        /\ OnlyResult

\* range(max_tries) is empty: ValueError is raised at once
NoTry ==
    /\ result.op = "generate_action_plan_json"
    /\ result.at = "loop"
    /\ result.max_tries = 0
    /\ result' = [result EXCEPT !.at = "raised"]
                 @@ [value |-> [kind |-> "raised", exception |-> "ValueError",
                                last_output |-> <<>>]]
    /\ OnlyResult

SpecPipeline == InitPipeline /\ [][Try \/ NoTry]_vars

----------------------------------------------------------------------------
(* Properties of the hypothesis bank *)

\* the inventory has one resource with strictly the highest count
UniqueMax(inventory) ==
    \E k \in DOMAIN inventory :
        \A j \in DOMAIN inventory \ {k} : inventory[j] < inventory[k]

TopResource(inventory) ==
    CHOOSE k \in DOMAIN inventory :
        \A j \in DOMAIN inventory \ {k} : inventory[j] < inventory[k]

\* two or more resources share the highest count
TiedMax(inventory) ==
    \E a, b \in DOMAIN inventory :
        /\ a # b
        /\ inventory[a] = inventory[b]
        /\ \A c \in DOMAIN inventory : inventory[c] <= inventory[a]

LatestRecord(history) == history[Len(history)]

Predicted(h) == h.next_inventories.predicted_opponent_next_inventory

\* eval_hypotheses has just returned: the controller is at the await that
\* follows it in a duel after the first
JustEvaluated == pc \in {"strategy", "commit"} /\ interaction_num > 1

\* the step of the controller in which eval_hypotheses runs and returns
EvaluateStep ==
    pc = "inference" /\ pc' \in {"strategy", "commit"} /\ interaction_num > 1

\* C1: after every call of eval_hypotheses the good-hypothesis flag is true
\* if and only if the highest credibility in the whole bank is above 0.7
C1_FlagIffTopCredibilityAboveThreshold ==
    JustEvaluated =>
        (good_hypothesis_found <=>
            \E k \in DOMAIN opponent_hypotheses :
                \A j \in DOMAIN opponent_hypotheses :
                    /\ opponent_hypotheses[j].value <= opponent_hypotheses[k].value
                    /\ opponent_hypotheses[k].value > ThrNum * (Scale \div Ten))

\* C2: a scored hypothesis whose predicted inventory and the inferred
\* inventory both have a unique maximum moves by 0.3 of the way to +1 when
\* the dominant resources are equal, and by 0.3 of the way to -1 when not
C2_CreditUpdate ==
    [][EvaluateStep =>
        LET empirical == LatestRecord(interaction_history').possible_opponent_inventory
            keys2eval == Keys2Eval(opponent_hypotheses)
        IN \A i \in 1..Len(keys2eval) :
            LET old == opponent_hypotheses[keys2eval[i]]
                new == opponent_hypotheses'[keys2eval[i]]
                target == IF TopResource(Predicted(old)) = TopResource(empirical)
                          THEN Scale ELSE -Scale
            IN (UniqueMax(Predicted(old)) /\ UniqueMax(empirical)) =>
                /\ (target - old.value) % Ten = 0
                /\ new.value = old.value + 3 * ((target - old.value) \div Ten)
    ]_vars

\* a duel after the first has been scored, with hypotheses that went up and
\* hypotheses that went down
C2_Witness ==
    /\ JustEvaluated
    /\ UniqueMax(LatestRecord(interaction_history).possible_opponent_inventory)
    /\ \E k, j \in DOMAIN opponent_hypotheses :
        /\ opponent_hypotheses[k].value > 0
        /\ opponent_hypotheses[j].value < 0

\* C3: a hypothesis whose predicted inventory ties for the maximum, or any
\* hypothesis when the inferred inventory ties, keeps its credibility
C3_TieLeavesCredibility ==
    [][EvaluateStep =>
        LET empirical == LatestRecord(interaction_history').possible_opponent_inventory
        IN \A key \in DOMAIN opponent_hypotheses :
            (TiedMax(Predicted(opponent_hypotheses[key])) \/ TiedMax(empirical)) =>
                opponent_hypotheses'[key].value = opponent_hypotheses[key].value
    ]_vars

\* a duel has been scored in which the inferred inventory had a dominant
\* resource, one hypothesis predicted a tie, and another was moved
C3_Witness ==
    /\ JustEvaluated
    /\ UniqueMax(LatestRecord(interaction_history).possible_opponent_inventory)
    /\ \E k, j \in DOMAIN opponent_hypotheses :
        /\ k < interaction_num
        /\ "next_inventories" \in DOMAIN opponent_hypotheses[k]
        /\ TiedMax(Predicted(opponent_hypotheses[k]))
        /\ opponent_hypotheses[j].value # 0

----------------------------------------------------------------------------
(* Properties of the post-duel pipeline *)

\* C4: whatever malformed replies the inference, strategy and negotiation
\* requests get, in the first duel and in every later one, the pipeline
\* reaches subgoal planning without raising
C4_MalformedRepliesNeverRaise ==
    onlyMalformed =>
        ~(outcome.status = "raised" /\ outcome.at # "subgoal_module")

\* the reply parses to an object that holds an opponent inventory
HoldsOpponentInventory(text) ==
    text.kind = "object" /\ "possible_opponent_inventory" \in DOMAIN text.obj

\* a request goes out from the call site the controller then waits at
Issues(site) ==
    /\ pc' = site
    /\ inflight' # inflight
    /\ \E i \in 1..Len(inflight') : inflight'[i].reply = Pending

\* C5: opponent-inventory inference sends at most 15 requests in a duel,
\* none after a reply that holds an opponent inventory, and records the
\* empty mapping in the latest interaction record when the 15th reply is
\* malformed too
C5_InferenceRetries ==
    /\ [](pc = "inference" => tries < 15)
    /\ [][Issues("inference") =>
            \/ pc = "duel" /\ tries' = 0
            \/ /\ pc = "inference"
               /\ tries' = tries + 1
               /\ ~HoldsOpponentInventory(inflight[1].reply)]_vars
    /\ [][(/\ pc = "inference"
           /\ AllReplied
           /\ tries = 14
           /\ ~HoldsOpponentInventory(inflight[1].reply)
           /\ pc' # "inference") =>
            LatestRecord(interaction_history').possible_opponent_inventory
                = EmptyDict]_vars

\* the 15 requests of a duel were all answered with malformed replies, and
\* the empty mapping stands in the latest interaction record
C5_Witness ==
    /\ pc = "strategy"
    /\ "possible_opponent_inventory" \in DOMAIN LatestRecord(interaction_history)
    /\ LatestRecord(interaction_history).possible_opponent_inventory = EmptyDict

\* the reply holds a plan that is_valid_plan accepts
HoldsValidPlan(text) == text.kind = "object" /\ is_valid_plan(text.obj).valid

SubgoalSites == {"subgoal", "subgoal_retry"}

\* C6: one invocation of subgoal planning sends the first plan request and
\* at most 15 retries, and none after a reply that holds a valid plan
C6_PlanRetries ==
    /\ [](pc = "subgoal_retry" => tries < 15)
    /\ [][(pc' \in SubgoalSites /\ inflight' # inflight /\ ~AllReplied') =>
            \/ pc \notin SubgoalSites /\ pc' = "subgoal"
            \/ /\ pc \in SubgoalSites
               /\ pc' = "subgoal_retry"
               /\ tries' = IF pc = "subgoal" THEN 0 ELSE tries + 1
               /\ ~HoldsValidPlan(inflight[1].reply)]_vars

\* the 16th plan request of one invocation is in flight
C6_Witness == pc = "subgoal_retry" /\ tries = 14 /\ ~AllReplied

\* C7: when every plan request is answered with an invalid plan, subgoal
\* planning does not return normally with an empty or missing action plan
C7_ExhaustionIsSurfaced ==
    outcome.status = "returned" =>
        /\ "action_plan" \in DOMAIN goal_and_plan
        /\ Len(goal_and_plan.action_plan) > 0

\* two failure descriptions say the same: the same failure, of the same
\* coordinate or command
SameDescription(a, b) ==
    /\ a.kind = b.kind
    /\ a.kind = "leads_to_wall" => a.destination = b.destination
    /\ a.kind = "invalid_destination" => a.plan = b.plan

\* C8: the feedback of a retry is the failure description is_valid_plan
\* gives for the plan that was proposed; for a move into a wall cell it
\* names that cell
C8_FeedbackIsValidatorResponse ==
    [][(pc \in SubgoalSites /\ pc' = "subgoal_retry") =>
        SameDescription(inflight'[1].feedback,
                        is_valid_plan(extract_dict(inflight[1].reply)).response)
    ]_vars

\* the cached prediction of a hypothesis, as a set: empty when it has none
Cached(h) == IF "next_inventories" \in DOMAIN h THEN {h.next_inventories} ELSE {}

\* the reply parses to an object with both inventories
HoldsNextInventories(text) ==
    /\ text.kind = "object"
    /\ "my_next_inventory" \in DOMAIN text.obj
    /\ "predicted_opponent_next_inventory" \in DOMAIN text.obj

\* C9: a negotiation round in which some reply is malformed changes neither
\* the governing target nor the cached prediction of any hypothesis
C9_NoPartialBatchCommit ==
    [][(/\ pc = "negotiation"
        /\ AllReplied
        /\ \E i \in 1..Len(inflight) : ~HoldsNextInventories(inflight[i].reply)) =>
            /\ \A k \in DOMAIN opponent_hypotheses :
                Cached(opponent_hypotheses'[k]) = Cached(opponent_hypotheses[k])
            /\ pc' = "negotiation" => next_inventories' = next_inventories
    ]_vars

\* the hypotheses recorded before this duel
PriorKeys == DOMAIN opponent_hypotheses \ {interaction_num}

\* the keys the requests in flight are conditioned on
RequestedKeys == {inflight[i].key : i \in 1..Len(inflight)}

\* C10: a negotiation round has one request for the most recent hypothesis
\* and one for each of the 7 prior hypotheses of highest credibility (all of
\* them when there are fewer); the controller does nothing until all are
\* answered; after a round of accepted replies each reply is cached on the
\* hypothesis of its request and the reply for the most recent hypothesis
\* is the governing target
C10_NegotiationFanOut ==
    /\ [](pc = "negotiation" =>
            /\ Len(inflight) = 1 + Min(7, Cardinality(PriorKeys))
            /\ Cardinality(RequestedKeys) = Len(inflight)
            /\ inflight[1].key = interaction_num
            /\ \A i \in 2..Len(inflight) :
                /\ inflight[i].key \in PriorKeys
                /\ \A j \in PriorKeys \ RequestedKeys :
                    opponent_hypotheses[j].value
                        <= opponent_hypotheses[inflight[i].key].value)
    /\ [][(pc = "negotiation" /\ ~AllReplied) =>
            (pc' = "negotiation" /\ agentState' = agentState)]_vars
    /\ [][(/\ pc = "negotiation"
           /\ AllReplied
           /\ \A i \in 1..Len(inflight) : HoldsNextInventories(inflight[i].reply)) =>
            /\ next_inventories' = inflight[1].reply.obj
            /\ \A i \in 1..Len(inflight) :
                opponent_hypotheses'[inflight[i].key].next_inventories
                    = inflight[i].reply.obj
            /\ \A k \in DOMAIN opponent_hypotheses \ RequestedKeys :
                opponent_hypotheses'[k] = opponent_hypotheses[k]]_vars

\* a round of 8 requests over a bank of 9 hypotheses has been joined: the
\* target is the reply for the new hypothesis, and one hypothesis was left out
C10_Witness ==
    /\ pc = "subgoal"
    /\ Cardinality(DOMAIN opponent_hypotheses) = 9
    /\ interaction_num \in DOMAIN opponent_hypotheses
    /\ Cached(opponent_hypotheses[interaction_num]) = {next_inventories}

\* C11: when the 15th negotiation round fails like the 14 before it, the
\* governing target is one of each resource for both inventories, and the
\* controller goes on to subgoal planning: nothing is raised
C11_NegotiationFallback ==
    [][(/\ pc = "negotiation"
        /\ AllReplied
        /\ tries = 14
        /\ \E i \in 1..Len(inflight) : ~HoldsNextInventories(inflight[i].reply)) =>
            /\ next_inventories' =
                   [my_next_inventory |-> Inv(1, 1, 1),
                    predicted_opponent_next_inventory |-> Inv(1, 1, 1)]
            /\ pc' = "subgoal"
            /\ outcome' = Running
            /\ Len(inflight') = 1 /\ inflight'[1].site = "subgoal"
    ]_vars

\* subgoal planning has started after 15 failed rounds: the reply cached on
\* the new hypothesis in a failed round is not the target, the default is
C11_Witness ==
    /\ pc = "subgoal"
    /\ interaction_num \in DOMAIN opponent_hypotheses
    /\ Cached(opponent_hypotheses[interaction_num]) # {}
    /\ Cached(opponent_hypotheses[interaction_num]) # {next_inventories}
    /\ next_inventories.my_next_inventory = Inv(1, 1, 1)

\* the hypothesis has the highest credibility of the bank
TopRanked(key) ==
    /\ key \in DOMAIN opponent_hypotheses
    /\ \A j \in DOMAIN opponent_hypotheses :
        opponent_hypotheses[j].value <= opponent_hypotheses[key].value

----------------------------------------------------------------------------
(* Order of the stages of a post-duel run *)

\* the controller leaves the inference stage
LeavesInference == pc = "inference" /\ pc' # "inference"

\* when the inference stage is left the latest record holds the inferred
\* inventory, and every credibility that moved in the step moved the way
\* that inventory says: up for the same dominant resource, down otherwise
RecordedBeforeScored ==
    LeavesInference =>
        /\ "possible_opponent_inventory"
               \in DOMAIN LatestRecord(interaction_history')
        /\ \A key \in DOMAIN opponent_hypotheses :
            LET old == opponent_hypotheses[key]
                new == opponent_hypotheses'[key]
                empirical ==
                    LatestRecord(interaction_history').possible_opponent_inventory
            IN new.value # old.value =>
                /\ UniqueMax(empirical)
                /\ UniqueMax(Predicted(old))
                /\ (new.value > old.value) <=>
                       (TopResource(Predicted(old)) = TopResource(empirical))

\* the branch entered is the one the flag chooses as scoring left it
ScoredBeforeBranch ==
    (LeavesInference /\ pc' \in {"strategy", "commit"}) =>
        /\ (pc' = "commit") <=> good_hypothesis_found'
        /\ pc' = "commit" =>
               \A j \in DOMAIN opponent_hypotheses' :
                   opponent_hypotheses'[j].value
                       <= opponent_hypotheses'[inflight'[1].key].value

\* the stage the controller is in is entered from the stage before it only,
\* and a run that is in one branch never enters the other
StagesFollow ==
    /\ pc' = "inference" => pc \in {"duel", "inference"}
    /\ pc' = "strategy" => pc \in {"inference", "strategy"}
    /\ pc' = "negotiation" => pc \in {"strategy", "negotiation"}
    /\ pc' = "commit" => pc \in {"inference", "commit"}
    /\ pc \in {"strategy", "negotiation", "commit"} =>
           pc' \in {pc, IF pc = "strategy" THEN "negotiation" ELSE "subgoal"}

\* subgoal planning is entered from a branch, in the step that sets the
\* target: to what the request for the acting hypothesis was answered, or
\* to the default
TargetBeforeSubgoal ==
    (pc' = "subgoal" /\ pc \notin {"subgoal", "hls"}) =>
        /\ pc \in {"negotiation", "commit"}
        /\ \/ next_inventories' = DefaultNextInventories
           \/ /\ inflight[1].reply.kind = "object"
              /\ next_inventories' = inflight[1].reply.obj

----------------------------------------------------------------------------
(* Scoring in a post-duel run *)

\* what one pass of scoring makes of a credibility
ScoredOnce(old, predicted, empirical) ==
    IF TiedMax(predicted) \/ TiedMax(empirical) THEN old
    ELSE LET target == IF TopResource(predicted) = TopResource(empirical)
                       THEN Scale ELSE -Scale
         IN old + 3 * ((target - old) \div Ten)

\* C14: a post-duel run scores the bank exactly once when interaction_num
\* is above 1 (every evaluated hypothesis holds what one pass makes of its
\* credibility, and the flag says whether one of them is above 0.7 now),
\* and not at all otherwise; no other step moves a credibility or the flag
C14_ScoredOncePerRun ==
    /\ [][(LeavesInference /\ interaction_num > 1) =>
            LET empirical ==
                    LatestRecord(interaction_history').possible_opponent_inventory
                keys2eval == Keys2Eval(opponent_hypotheses)
                evaluated == {keys2eval[i] : i \in 1..Len(keys2eval)}
            IN /\ \A key \in evaluated :
                    opponent_hypotheses'[key].value =
                        ScoredOnce(opponent_hypotheses[key].value,
                                   Predicted(opponent_hypotheses[key]), empirical)
               /\ good_hypothesis_found' <=>
                    \E key \in evaluated :
                        /\ opponent_hypotheses'[key].value
                               # opponent_hypotheses[key].value
                        /\ opponent_hypotheses'[key].value > 7 * (Scale \div Ten)]_vars
    /\ [][(LeavesInference /\ interaction_num <= 1) =>
            /\ opponent_hypotheses' = opponent_hypotheses
            /\ good_hypothesis_found' = good_hypothesis_found
            /\ pc' = "strategy"]_vars
    /\ [][~LeavesInference =>
            /\ good_hypothesis_found' = good_hypothesis_found
            /\ \A key \in DOMAIN opponent_hypotheses :
                opponent_hypotheses'[key].value = opponent_hypotheses[key].value
       ]_vars

\* the second duel has been scored: the hypothesis of the first duel holds
\* what one pass makes of credibility 0, which is 0.3 or -0.3
C14_Witness ==
    /\ JustEvaluated
    /\ interaction_num = 2
    /\ opponent_hypotheses[1].value \in {3 * (Scale \div Ten), -3 * (Scale \div Ten)}

----------------------------------------------------------------------------
(* A run without a duel *)

\* C15: a run with after_interaction false sends one open-ended strategy
\* request, then starts subgoal planning; neither stage changes the bank,
\* the history, the flag or the target; before the first duel the target is
\* one of each resource for both inventories
C15_NoDuelRun ==
    /\ [][(pc = "idle" /\ pc' \notin {"idle", "duel"}) =>
            /\ pc' = "hls"
            /\ Len(inflight') = 1
            /\ inflight'[1].site = "hls"
            /\ inflight'[1].reply = Pending
            /\ agentState' = agentState]_vars
    /\ [][pc = "hls" =>
            /\ agentState' = agentState
            /\ \/ /\ pc' = "hls"
                  /\ inflight[1].reply = Pending
                  /\ inflight'[1].reply # Pending
                  /\ inflight' = [inflight EXCEPT ![1].reply = inflight'[1].reply]
               \/ /\ pc' = "subgoal"
                  /\ Len(inflight') = 1
                  /\ inflight'[1].site = "subgoal"
                  /\ inflight'[1].reply = Pending]_vars
    /\ [][(pc \in SubgoalSites) => (agentState' = agentState)]_vars
    /\ []((pc \in {"hls"} \cup SubgoalSites /\ interaction_num = 0) =>
            /\ next_inventories =
                   [my_next_inventory |-> Inv(1, 1, 1),
                    predicted_opponent_next_inventory |-> Inv(1, 1, 1)]
            /\ opponent_hypotheses = EmptyDict
            /\ interaction_history = <<>>
            /\ ~good_hypothesis_found)

\* in a run without a duel, made after the first duel, the open-ended
\* request has been answered: the target the duel set is still the target
C15_Witness ==
    /\ pc = "hls"
    /\ AllReplied
    /\ interaction_num = 1
    /\ 1 \in DOMAIN opponent_hypotheses
    /\ next_inventories # DefaultNextInventories
    /\ Cached(opponent_hypotheses[1]) = {next_inventories}

----------------------------------------------------------------------------
(* Termination *)

\* C16: with every request answered in the end, every run of the controller
\* ends, whatever the answers are, and no retry loop sends more requests
\* than its cap
C16_EveryRunTerminates ==
    /\ [](pc \in {"inference", "negotiation", "subgoal_retry"} => tries < 15)
    /\ (outcome.status = "running") ~> (outcome.status # "running")

----------------------------------------------------------------------------
(* Properties of the memory *)

\* the locations an entity's list holds
Locations(entries) == {entry_loc(entries[i]) : i \in 1..Len(entries)}

\* C17: after any sequence of memory updates, no location is in the entries
\* of two different entity types
C17_OneCategoryPerLocation ==
    \A a, b \in EntityNames :
        a # b => Locations(memory_states[a]) \cap Locations(memory_states[b]) = {}

\* updates of two ticks have left entries with two entity types
C17_Witness ==
    \E a, b \in EntityNames :
        /\ a # b
        /\ \E i \in 1..Len(memory_states[a]), j \in 1..Len(memory_states[b]) :
               memory_states[a][i][2] < memory_states[b][j][2]

\* the entity's entries for the location
EntriesFor(entries, location) ==
    SelectSeq(entries, LAMBDA e : entry_loc(e) = location)

\* the locations the snapshot shows for the entity type
Observed(ego_state, entity_type) ==
    LET locations == observed_locations(ego_state, entity_type)
    IN {locations[i] : i \in 1..Len(locations)}

\* the memory after update_memory with this snapshot at this tick
Stored(ego_state) == update_memory(memory_states, ego_state, now)

\* the entity's list holds one entry for the location, with this step
HoldsOnce(mem, entity_type, location, step) ==
    EntriesFor(mem[entity_type], location) = <<<<location, step>>>>

\* no entity's list holds two entries for the same location
NoTwoEntries(mem) ==
    \A entity_type \in DOMAIN mem :
        \A i, j \in 1..Len(mem[entity_type]) :
            i # j => entry_loc(mem[entity_type][i]) # entry_loc(mem[entity_type][j])

\* the snapshot shows the location for no later entity type of the order
\* update_memory goes through
LastShownAs(ego_state, i, location) ==
    \A j \in (i + 1)..Len(EntityTypes) :
        location \notin Observed(ego_state, EntityTypes[j])

\* C18 as stated: after an update in which a location is observed for an
\* entity type, that type's list holds exactly one entry for the location,
\* with the step of the update; and no list ever holds two entries for the
\* same location
C18_ObservedIsHeldOnce ==
    /\ NoTwoEntries(memory_states)
    /\ retrieved = NotRetrieved =>
          \A ego_state \in Snapshots :
              LET stored == Stored(ego_state)
              IN \A entity_type \in EntityNames :
                     \A location \in Observed(ego_state, entity_type) :
                         HoldsOnce(stored, entity_type, location, now)

\* C18: after an update in which a location is observed, the last entity
\* type of the update's order it is observed for holds exactly one entry for
\* the location, with the step of the update, and no other type holds the
\* location; and no list ever holds two entries for the same location
C18_LastObservedIsHeldOnce ==
    /\ NoTwoEntries(memory_states)
    /\ retrieved = NotRetrieved =>
          \A ego_state \in Snapshots :
              LET stored == Stored(ego_state)
              IN \A i \in 1..Len(EntityTypes) :
                     \A location \in Observed(ego_state, EntityTypes[i]) :
                         LastShownAs(ego_state, i, location) =>
                             /\ HoldsOnce(stored, EntityTypes[i], location, now)
                             /\ \A other \in EntityNames \ {EntityTypes[i]} :
                                    location \notin Locations(stored[other])

\* a location the memory holds from an earlier tick is observed again, for
\* the same entity type, and the update leaves one entry for it
C18_Witness ==
    /\ retrieved = NotRetrieved
    /\ \E ego_state \in Snapshots, entity_type \in EntityNames :
           \E location \in Observed(ego_state, entity_type) :
               /\ \E i \in 1..Len(memory_states[entity_type]) :
                      /\ memory_states[entity_type][i][1] = location
                      /\ memory_states[entity_type][i][2] < now
               /\ HoldsOnce(Stored(ego_state), entity_type, location, now)

----------------------------------------------------------------------------
(* Properties of the retrieval *)

\* a retrieval has been made at this tick, and the memory is as it found it
Asked == retrieved # NotRetrieved

\* the entity types the retrieval was asked for
Requested ==
    LET types == RetrievedTypes(next_inventories, retrieved.args.target_only,
                                retrieved.args.include_players)
    IN {types[i] : i \in 1..Len(types)}

\* the box types of the resources my_next_inventory wants at least one of
Targeted ==
    {mapping[k] : k \in {r \in Resources :
                            next_inventories.my_next_inventory[r] > 0}}

\* what the retrieval returned for the entity type
ReturnedFor(entity_type) ==
    IF entity_type \in DOMAIN retrieved.out
    THEN retrieved.out[entity_type]
    ELSE <<>>

Members(seq) == {seq[i] : i \in 1..Len(seq)}

\* current step minus last-observed step
Age(entry) == retrieved.args.current_step - entry[2]

\* the retrieval returned as many entries of the type as it may
CapReached(entity_type) ==
    Len(ReturnedFor(entity_type)) = retrieved.args.max_per_type

\* no returned entry is older than the ttl
NoStaleReturned ==
    \A entity_type \in DOMAIN retrieved.out :
        \A entry \in Members(retrieved.out[entity_type]) :
            Age(entry) <= retrieved.args.ttl_steps

\* an entry of a requested type that is not older than the ttl is returned
\* unless the cap is reached without it
FreshReturnedUpToCap ==
    \A entity_type \in Requested :
        \A entry \in Members(memory_states[entity_type]) :
            Age(entry) <= retrieved.args.ttl_steps =>
                \/ entry \in Members(ReturnedFor(entity_type))
                \/ CapReached(entity_type)

\* C19 as stated: no returned entry is older than the ttl; an entry of a
\* requested type that is not older is returned unless the cap excludes it;
\* and what is stored at step s for a targeted type is in the retrieved
\* memories of the prompt built at step s
C19_ObservationIsInPrompt ==
    Asked =>
        /\ NoStaleReturned
        /\ FreshReturnedUpToCap
        /\ retrieved.by = "hls" =>
              \A entity_type \in Targeted :
                  \A entry \in Members(memory_states[entity_type]) :
                      entry[2] = retrieved.args.current_step =>
                          entry \in Members(ReturnedFor(entity_type))

\* C19: no returned entry is older than the ttl; an entry of a requested
\* type that is not older is returned unless the cap excludes it; and what
\* is stored at step s for a targeted type is in the retrieved memories of
\* the prompt built at step s unless the cap of 12 excludes it
C19_TtlAndCap ==
    Asked =>
        /\ NoStaleReturned
        /\ FreshReturnedUpToCap
        /\ retrieved.by = "hls" =>
              \A entity_type \in Targeted :
                  \A entry \in Members(memory_states[entity_type]) :
                      entry[2] = retrieved.args.current_step =>
                          \/ entry \in Members(ReturnedFor(entity_type))
                          \/ Len(ReturnedFor(entity_type)) = max_per_type

\* a prompt is built with a targeted type that holds an entry of this tick,
\* which is returned, and an entry older than the ttl, which is not
C19_Witness ==
    /\ retrieved.by = "hls"
    /\ \E entity_type \in Targeted :
           \E new, old \in Members(memory_states[entity_type]) :
               /\ new[2] = retrieved.args.current_step
               /\ new \in Members(ReturnedFor(entity_type))
               /\ Age(old) > ttl_steps
               /\ old \notin Members(ReturnedFor(entity_type))

\* the distance of an entry to the position the retrieval was given
Distance(entry) ==
    IF retrieved.args.current_position # None
    THEN manhattan(retrieved.args.current_position, entry[1])
    ELSE Unplaced

\* a may stand before b: it is nearer, or as near and not older
MayPrecede(a, b) ==
    \/ Distance(a) < Distance(b)
    \/ Distance(a) = Distance(b) /\ a[2] >= b[2]

\* the entries of the type that are not older than the ttl
Fresh(entity_type) ==
    {entry \in Members(memory_states[entity_type]) :
        Age(entry) <= retrieved.args.ttl_steps}

\* C20: for each requested type the retrieval returns at most max_per_type
\* entries, in ascending distance to the position and, at equal distance,
\* in descending last-observed step, and they are the first max_per_type of
\* the entries that are not stale in that order
C20_NearestThenNewest ==
    Asked =>
        \A entity_type \in Requested :
            LET returned == ReturnedFor(entity_type)
                fresh == Fresh(entity_type)
            IN /\ Len(returned) = Min(retrieved.args.max_per_type,
                                      Cardinality(fresh))
               /\ Cardinality(Members(returned)) = Len(returned)
               /\ Members(returned) \subseteq fresh
               /\ \A i, j \in 1..Len(returned) :
                      i < j => MayPrecede(returned[i], returned[j])
               /\ \A left \in fresh \ Members(returned) :
                      \A entry \in Members(returned) : MayPrecede(entry, left)

\* a retrieval for a position returns as many entries as it may and leaves
\* some out, and among the returned two are as near, the newer one first
C20_Witness ==
    /\ Asked
    /\ retrieved.args.current_position # None
    /\ \E entity_type \in Requested :
           LET returned == ReturnedFor(entity_type)
           IN /\ Len(returned) = retrieved.args.max_per_type
              /\ Cardinality(Fresh(entity_type)) > Len(returned)
              /\ \E i, j \in 1..Len(returned) :
                     /\ i < j
                     /\ Distance(returned[i]) = Distance(returned[j])
                     /\ returned[i][2] > returned[j][2]

\* C21: a retrieval leaves the memory as it is, stale entries too: when the
\* same is asked again with a larger ttl, the entries the first call found
\* stale and the second does not are returned (up to the cap)
C21_RetrieveIsPureQuery ==
    [][(retrieved' # NotRetrieved /\ retrieved' # retrieved) =>
           /\ memory_states' = memory_states
           /\ Asked =>
                 \A entity_type \in Requested :
                     \A entry \in Members(memory_states[entity_type]) :
                         (/\ Age(entry) > retrieved.args.ttl_steps
                          /\ Age(entry) <= retrieved'.args.ttl_steps) =>
                             \/ /\ entity_type \in DOMAIN retrieved'.out
                                /\ entry \in Members(retrieved'.out[entity_type])
                             \/ /\ entity_type \in DOMAIN retrieved'.out
                                /\ Len(retrieved'.out[entity_type])
                                       = retrieved'.args.max_per_type]_vars

\* the second call of a tick has returned an entry that the first, with the
\* smaller ttl, had found stale
C21_Witness ==
    /\ retrieved.by = "retrieve"
    /\ retrieved.args.ttl_steps > ttl_steps
    /\ \E entity_type \in DOMAIN retrieved.out :
           \E entry \in Members(retrieved.out[entity_type]) :
               Age(entry) > ttl_steps

----------------------------------------------------------------------------
(* Properties of the plan validator *)

\* is_valid_plan has just been called on this response
Validated(goals_and_actions) ==
    result.op = "is_valid_plan" /\ result.args = goals_and_actions

MissingOrEmpty(goals_and_actions) ==
    \/ "action_plan" \notin DOMAIN goals_and_actions
    \/ goals_and_actions.action_plan = <<>>

\* the command's destination can be read and is a known wall cell
LeadsToKnownWall(command) ==
    /\ ~Destination(command).raised
    /\ Destination(command).value \in wall_locations

\* the commands of the plan whose destination is a known wall cell, and
\* those that are refused: no destination can be read, or it is a wall cell
WallCommands(plan) == {i \in 1..Len(plan) : LeadsToKnownWall(plan[i])}
Refused(plan) ==
    {i \in 1..Len(plan) : Destination(plan[i]).raised \/ LeadsToKnownWall(plan[i])}

\* C22 as stated: a missing or empty plan is rejected; a plan with a wall
\* destination is rejected with a message that holds that wall coordinate;
\* a non-empty plan with no wall destination is accepted with no message
C22_WallsDecide ==
    \A goals_and_actions \in ProposedResponses :
        Validated(goals_and_actions) =>
            IF MissingOrEmpty(goals_and_actions) THEN ~result.value.valid
            ELSE LET plan == goals_and_actions.action_plan
                 IN IF WallCommands(plan) # {}
                    THEN /\ ~result.value.valid
                         /\ \E i \in WallCommands(plan) :
                                result.value.response
                                    = LeadsToWall(Destination(plan[i]).value)
                    ELSE result.value = [valid |-> TRUE, response |-> NoMessage]

\* C22, amended: a missing or empty plan is rejected; otherwise the first
\* command whose destination cannot be read or is a known wall cell decides:
\* the plan is rejected with a message naming the command when its
\* destination cannot be read, and with one holding the wall coordinate when
\* it is a wall cell; a plan with no such command is accepted with no message
C22_FirstRefusedDecides ==
    \A goals_and_actions \in ProposedResponses :
        Validated(goals_and_actions) =>
            IF MissingOrEmpty(goals_and_actions)
            THEN /\ ~result.value.valid
                 /\ result.value.response = NoActionPlan(goals_and_actions)
            ELSE LET plan == goals_and_actions.action_plan
                 IN IF Refused(plan) = {}
                    THEN result.value = [valid |-> TRUE, response |-> NoMessage]
                    ELSE LET first == CHOOSE i \in Refused(plan) :
                                          \A j \in Refused(plan) : i <= j
                         IN /\ ~result.value.valid
                            /\ result.value.response =
                                   IF Destination(plan[first]).raised
                                   THEN InvalidDestination(plan[first])
                                   ELSE LeadsToWall(Destination(plan[first]).value)

\* a plan whose second command leads to a wall has been rejected for its
\* first, which names no coordinate
C22_Witness ==
    /\ result.op = "is_valid_plan"
    /\ ~MissingOrEmpty(result.args)
    /\ WallCommands(result.args.action_plan) # {}
    /\ ~result.value.valid
    /\ result.value.response.kind = "invalid_destination"

----------------------------------------------------------------------------
(* Properties of the lowering of a move_to *)

\* get_actions_from_plan has just searched a route for a move_to
Lowered == result.op = "get_actions_from_plan" /\ "search" \in DOMAIN result

\* the command at the cursor
Subgoal == action_plan[subgoal_num + 1]

\* the cells that can be reached from these without entering a known wall
RECURSIVE AroundWalls(_)
AroundWalls(cells) ==
    LET more == {cell \in GridCells \ (wall_locations \cup cells) :
                    \E from \in cells : manhattan(cell, from) = 1}
    IN IF more = {} THEN cells ELSE AroundWalls(cells \cup more)

\* C23: a route that only entities other than walls can block is found at
\* some tier, at the latest with the walls only; a route that the walls block
\* is found at no tier, and no route found enters a known wall cell
C23_RelaxationStopsAtWalls ==
    Lowered =>
        /\ result.search.path_found
               <=> Subgoal.goal \in AroundWalls({Subgoal.start})
        /\ \A i \in 1..Len(result.search.paths) :
               result.search.paths[i] \notin wall_locations
        /\ result.search.path_found =>
               /\ result.search.paths[1] = Subgoal.start
               /\ result.search.paths[Len(result.search.paths)] = Subgoal.goal

\* a route that the opponent or a box blocks has been found with the walls only
C23_Witness ==
    /\ Lowered
    /\ result.tier = 2
    /\ result.search.path_found
    /\ Len(result.search.paths) > 1

----------------------------------------------------------------------------
(* Properties of the queue *)

\* the actions a step has put behind those the queue held
Enqueued ==
    IF "search" \in DOMAIN result' THEN result'.search.actions
    ELSE SubSeq(all_actions', Len(all_actions) + 1, Len(all_actions'))

\* C24: act returns the oldest action of the queue and takes it, and only
\* it, out; on an empty queue it returns nothing and leaves the queue as it
\* is; a check that replans starts the queue anew and returns or leaves in
\* it the actions of its lowering, in the order of the route; whatever else
\* is called, the queue keeps its actions in their order and a lowering puts
\* its actions behind them, in the order of the route
C24_ActIsFifo ==
    [][IF result'.op = "act"
       THEN IF all_actions # <<>>
            THEN /\ result'.value = Head(all_actions)
                 /\ all_actions' = Tail(all_actions)
            ELSE /\ result'.value = NoMessage
                 /\ all_actions' = all_actions
       ELSE IF result'.op = "check_plan_one_step" /\ "search" \in DOMAIN result'
       THEN IF Enqueued = <<>>
            THEN result'.value = Noop /\ all_actions' = <<>>
            ELSE <<result'.value>> \o all_actions' = Enqueued
       ELSE /\ Len(all_actions') >= Len(all_actions)
            /\ all_actions' = all_actions \o Enqueued]_vars

\* act has returned an action while another, put into the queue after it,
\* is still to come
C24_Witness ==
    /\ result.op = "act"
    /\ result.value # NoMessage
    /\ all_actions # <<>>
    /\ all_actions[1] # result.value

----------------------------------------------------------------------------
(* Properties of update_state *)

\* update_state has just been called with an observation that holds these
\* keys of players, the agent's among them or not
Reconciled == result.op = "update_state"

InPlay ==
    \E i \in 1..Len(result.args) : startswith(result.args[i][1], agent_id)

\* the agent's key in the observation and what it says
Observation ==
    LET item == result.args[CHOOSE i \in 1..Len(result.args) :
                                startswith(result.args[i][1], agent_id)]
    IN [pos |-> item[2][1], orientation |-> KeySplit[item[1]][2]]

\* a plan is active: the cursor is at one of its commands
PlanActive ==
    /\ {"action_plan", "subgoal_num"} \subseteq attributes
    /\ subgoal_num < Len(action_plan)

\* C25: with the agent in the observation and a plan active, position and
\* orientation are those of the observation and the report says whether the
\* position is the destination of the command at the cursor
C25_ReportsActiveSubgoal ==
    (Reconciled /\ InPlay /\ PlanActive) =>
        /\ pos = Observation.pos
        /\ orientation = Observation.orientation
        /\ result.value =
               [kind |-> "reached_goal_position",
                goal_pos |-> Destination(Subgoal).value,
                reached |-> Observation.pos = Destination(Subgoal).value]

\* C26: with the agent not in the observation, no exception is raised and
\* the status returned says that the agent is out of the game
C26_AbsenceIsReported ==
    (Reconciled /\ ~InPlay) => result.value = [kind |-> "out_of_game"]

----------------------------------------------------------------------------
(* Properties of the interaction history *)

\* C27: of the records of the history only the opponent-inventory field of
\* the latest is ever changed: step, own inventory and reward of every
\* record stay what they were when the record was appended, whatever keys
\* the inference response holds
C27_OnlyOpponentInventoryChanges ==
    [][\A i \in 1..Len(interaction_history) :
           /\ interaction_history'[i].step = interaction_history[i].step
           /\ interaction_history'[i].your_inventory
                  = interaction_history[i].your_inventory
           /\ interaction_history'[i].reward = interaction_history[i].reward
           /\ i < Len(interaction_history) =>
                  interaction_history'[i] = interaction_history[i]]_vars

----------------------------------------------------------------------------
(* The bank over the duels *)

\* the strategy stage of a round, which is entered when scoring has left no
\* confident hypothesis, comes to its end
RecordsHypothesis == pc = "strategy" /\ pc' # "strategy"

----------------------------------------------------------------------------
(* Properties of the controller's requests *)

\* C29: a request with force "dict" or "tuple" reaches the client with, in
\* extra_body, guided_json equal to the schema of the mode and the guided
\* decoding backend; one with force "none" or with no force reaches it with
\* no guided_json
C29_ForceSetsGuidedJson ==
    /\ sent.force \in {"dict", "tuple"} =>
           /\ {"guided_json", "guided_decoding_backend"}
                  \subseteq DOMAIN sent.payload.extra_body
           /\ sent.payload.extra_body["guided_json"] =
                  (IF sent.force = "dict" THEN "STEP_JSON_SCHEMA"
                   ELSE "TUPLE2_SCHEMA")
           /\ sent.payload.extra_body["guided_decoding_backend"]
                  = "lm-format-enforcer"
    /\ sent.force \in {"none", "omitted"} =>
           /\ "guided_json" \notin DOMAIN sent.payload.extra_body
           /\ "structured_schema" \notin DOMAIN sent.payload

\* a request with force "tuple", made by a controller that has an extra_body
\* of its own, has reached the client with both in the extra_body
C29_Witness ==
    /\ sent.force = "tuple"
    /\ "extra_body" \in DOMAIN sent.model_args
    /\ DOMAIN sent.payload.extra_body
           = {"top_k", "guided_json", "guided_decoding_backend"}

----------------------------------------------------------------------------
(* Who changes the agent's state, and when *)

\* the state the agent owns: the bank, the history, the target and the flag,
\* the memory, the plan, its cursor and the queue
AgentOwned ==
    <<agentState, memory_states, action_plan, subgoal_num, all_actions>>

\* the controller is suspended on a request that has no answer yet
Suspended == \E i \in 1..Len(inflight) : inflight[i].reply = Pending

\* C30: while the controller is suspended nothing the agent owns changes; in
\* particular from the issue of the concurrent negotiation requests to the
\* arrival of the last answer the controller stays at the join with the same
\* requests and answers only arrive, so every change of the agent's state is
\* made by the one controller step that runs once all answers are in
C30_MutatedOnlyBetweenSuspensions ==
    /\ [][Suspended => AgentOwned' = AgentOwned]_vars
    /\ [][(pc = "negotiation" /\ Suspended) =>
            /\ pc' = "negotiation"
            /\ tries' = tries
            /\ sorted_keys' = sorted_keys
            /\ Len(inflight') = Len(inflight)
            /\ \A i \in 1..Len(inflight) :
                \/ inflight'[i] = inflight[i]
                \/ /\ inflight[i].reply = Pending
                   /\ inflight' = [inflight EXCEPT ![i].reply = inflight'[i].reply]]_vars

\* several negotiation requests are in flight, the first is answered with
\* inventories and another is not answered yet, and the target is still
\* not that answer
C30_Witness ==
    /\ pc = "negotiation"
    /\ Len(inflight) >= 2
    /\ Suspended
    /\ NegotiationAccepts(inflight[1].reply)
    /\ next_inventories # _parse_json_like_object(inflight[1].reply).value

----------------------------------------------------------------------------
(* Properties of the extraction *)

\* the text holds one object with quoted keys and values, alone or as the
\* whole inside of a fenced block, and around it only these tokens
Embeds(text, i, around) ==
    /\ text[i] \in {"dq_object", "sq_object"}
    /\ LET fenced == /\ 1 < i
                     /\ i < Len(text)
                     /\ text[i - 1] = "fence_open"
                     /\ text[i + 1] = "fence_close"
       IN \A j \in 1..Len(text) :
            \/ j = i
            \/ text[j] \in around
            \/ fenced /\ j \in {i - 1, i + 1}

Extracted == result.op \in {"extract_dict", "_parse_json_like_object"}

\* what the call gave back: a dict, or nothing when it raised
Recovered ==
    IF result.op = "extract_dict" THEN [raised |-> FALSE, value |-> result.value]
    ELSE result.value

----------------------------------------------------------------------------
(* What eval_hypotheses leaves alone *)

\* the hypothesis, but for its credibility
Unscored(h) == [key \in DOMAIN h \ {"value"} |-> h[key]]

\* the hypothesis is the most recent one of the bank, or fewer than 7 of the
\* others have a credibility above its own
AmongEvaluated(key, bank) ==
    \/ \A j \in DOMAIN bank : j <= key
    \/ Cardinality({j \in DOMAIN bank :
                       /\ \E i \in DOMAIN bank : i > j
                       /\ bank[j].value > bank[key].value}) < 7

\* C32: the step in which eval_hypotheses runs changes the credibility only
\* of the most recent hypothesis and of the 7 other hypotheses of highest
\* credibility before it, and changes no hypothesis in anything else
C32_ScoresOnlyTheEvaluated ==
    [][(LeavesInference /\ interaction_num > 1) =>
        /\ DOMAIN opponent_hypotheses' = DOMAIN opponent_hypotheses
        /\ \A key \in DOMAIN opponent_hypotheses :
            /\ Unscored(opponent_hypotheses'[key])
                   = Unscored(opponent_hypotheses[key])
            /\ opponent_hypotheses'[key].value # opponent_hypotheses[key].value
                   => AmongEvaluated(key, opponent_hypotheses)
    ]_vars

\* a bank of 9 hypotheses has been scored, and one that is ranked below 7
\* others predicts a dominant resource: scoring would have moved it
C32_Witness ==
    /\ JustEvaluated
    /\ Cardinality(DOMAIN opponent_hypotheses) = 9
    /\ \E key \in DOMAIN opponent_hypotheses :
        /\ ~AmongEvaluated(key, opponent_hypotheses)
        /\ UniqueMax(Predicted(opponent_hypotheses[key]))

----------------------------------------------------------------------------
(* The assertion of the commit branch *)

\* C33: when the controller is on the commit branch the bank is not empty
\* and its highest credibility is above 0.7; no run ends in the assertion of
\* line 563, nor in the index error that an empty bank would raise one line
\* before it
C33_CommitAssertionHolds ==
    /\ pc = "commit" =>
        /\ DOMAIN opponent_hypotheses # {}
        /\ \E key \in DOMAIN opponent_hypotheses :
            /\ \A j \in DOMAIN opponent_hypotheses :
                opponent_hypotheses[j].value <= opponent_hypotheses[key].value
            /\ 10 * opponent_hypotheses[key].value > 7 * Scale
    /\ outcome.status = "raised" =>
        ~(outcome.at = "two_level_plan"
            /\ outcome.exc \in {"AssertionError", "IndexError"})

\* the commit branch has been taken in a duel in which the inferred
\* inventory contradicted a hypothesis of the bank
C33_Witness ==
    /\ pc = "commit"
    /\ \E key \in DOMAIN opponent_hypotheses : opponent_hypotheses[key].value < 0

----------------------------------------------------------------------------
(* What eval_hypotheses finds in the bank *)

\* C34: when eval_hypotheses is about to run, every hypothesis it will score
\* holds a cached prediction with a predicted opponent inventory
C34_ScoredHypothesesHoldPrediction ==
    (pc = "inference" /\ interaction_num > 1 /\ DOMAIN opponent_hypotheses # {}) =>
        LET keys2eval == Keys2Eval(opponent_hypotheses)
        IN \A i \in 1..Len(keys2eval) :
            /\ "next_inventories" \in DOMAIN opponent_hypotheses[keys2eval[i]]
            /\ "predicted_opponent_next_inventory"
                   \in DOMAIN opponent_hypotheses[keys2eval[i]].next_inventories

----------------------------------------------------------------------------
(* The range of the credibilities *)

\* C35: every credibility is strictly between -1 and +1, and the step in
\* which eval_hypotheses runs moves a credibility up and not beyond +1 when
\* the hypothesis predicted the dominant resource that was inferred, down and
\* not beyond -1 when it predicted another one
C35_CredibilityStaysInRange ==
    /\ [](\A key \in DOMAIN opponent_hypotheses :
            /\ -Scale < opponent_hypotheses[key].value
            /\ opponent_hypotheses[key].value < Scale)
    /\ [][(LeavesInference /\ interaction_num > 1) =>
            LET empirical ==
                    LatestRecord(interaction_history').possible_opponent_inventory
            IN \A key \in DOMAIN opponent_hypotheses :
                LET old == opponent_hypotheses[key].value
                    new == opponent_hypotheses'[key].value
                IN new # old =>
                    /\ UniqueMax(Predicted(opponent_hypotheses[key]))
                    /\ UniqueMax(empirical)
                    /\ IF TopResource(Predicted(opponent_hypotheses[key]))
                              = TopResource(empirical)
                       THEN old < new /\ new < Scale
                       ELSE -Scale < new /\ new < old]_vars

\* after a scoring one hypothesis is above 0.9 and another is below -0.9
C35_Witness ==
    /\ JustEvaluated
    /\ \E k, j \in DOMAIN opponent_hypotheses :
        /\ 10 * opponent_hypotheses[k].value > 9 * Scale
        /\ 10 * opponent_hypotheses[j].value < -9 * Scale

----------------------------------------------------------------------------
(* What subgoal planning returns *)

\* C36: a result of subgoal planning that holds an action plan holds one
\* that is not empty, each of whose commands names a destination, none of
\* them a known wall cell, and its subgoal_num is 0
C36_ReturnedPlanIsValid ==
    (outcome = Returned /\ "action_plan" \in DOMAIN goal_and_plan) =>
        /\ goal_and_plan.action_plan # <<>>
        /\ \A i \in 1..Len(goal_and_plan.action_plan) :
            LET plan == goal_and_plan.action_plan[i]
            IN /\ plan.func \in {"move_to", "fire_at"}
               /\ (IF plan.func = "move_to" THEN plan.goal ELSE plan.target)
                      \notin wall_locations
        /\ goal_and_plan.subgoal_num = 0

\* a plan has been returned by a run that followed a duel
C36_Witness ==
    /\ outcome = Returned
    /\ "action_plan" \in DOMAIN goal_and_plan
    /\ interaction_num > 0
    /\ pc = "idle"

----------------------------------------------------------------------------
(* The shape a request declares and the check of its call site *)

\* replies of every kind the service gives in this model
SomeReplies ==
    UNION {AnyText(Call(site, 1, EmptyDict, NoMessage)) :
              site \in {"inference", "strategy", "negotiation", "subgoal", "hls"}}

\* the call site takes the reply
Accepted(site, text) ==
    CASE site = "inference" -> InferenceAccepts(text)
      [] site = "strategy" -> ~_parse_json_like_object(text).raised
      [] site = "negotiation" -> NegotiationAccepts(text)
      [] site = "subgoal" -> DOMAIN parse_multiple_llm_responses(text) # {}
      [] site = "hls" -> TRUE

\* the schema get_response sends for the force of the call site
SchemaSent(site) ==
    get_schema(IF Force(site) \in {"dict", "tuple"} THEN Force(site) ELSE "none")

\* C37: for every request in flight, when a schema goes out with it some
\* reply that conforms to the schema passes the check of the call site, and
\* when the request declares a shape other than free text a schema goes out
\* with it
C37_ShapeMatchesAcceptance ==
    \A i \in 1..Len(inflight) :
        LET site == inflight[i].site
        IN /\ SchemaSent(site) # "None" =>
                \E text \in SomeReplies :
                    Conforms(SchemaSent(site), text) /\ Accepted(site, text)
           /\ Force(site) # "none" => SchemaSent(site) # "None"

----------------------------------------------------------------------------
(* The grids of the searches that follow a failed search *)

\* the observation or the memory says that the cell holds the category
KnownToHold(state, mem, cell, category) ==
    \/ category = "wall" /\ cell \in state.global.wall
    \/ \E i \in 1..Len(state.ego) :
           /\ state.ego[i][1] \notin {"inventory", "wall"}
           /\ startswith(state.ego[i][1], category)
           /\ cell \in state.ego[i][2]
    \/ /\ category \in DOMAIN mem
       /\ \E i \in 1..Len(mem[category]) : entry_loc(mem[category][i]) = cell

\* the cells but the goal that are known to hold one of the categories
Obstacles(state, mem, categories, goal) ==
    {cell \in GridCells \ {goal} :
        \E category \in categories : KnownToHold(state, mem, cell, category)}

\* the categories the goal is known to hold: one of them, or none when
\* nothing is known of the goal
GoalsOwn(state, mem, goal) ==
    LET held == {category \in AllLabels \cup EntityNames :
                    KnownToHold(state, mem, goal, category)}
    IN IF held = {} THEN {{}} ELSE {{category} : category \in held}

----------------------------------------------------------------------------
(* The check of an action before it is played *)

\* C39: check_plan_one_step, applied with the agent in play to an action
\* that get_actions_from_plan enqueued, raises no exception and returns an
\* action: the same INTERACT_ action when it was given one, and NOOP only
\* when replanning has left the queue empty
C39_CheckedStepReturnsAction ==
    result.op = "check_plan_one_step" =>
        /\ result.value.kind \in {"STEP", "INTERACT", "NOOP"}
        /\ result.args.kind = "INTERACT" => result.value = result.args
        /\ result.value = Noop => all_actions = <<>>

----------------------------------------------------------------------------
(* The retries of generate_action_plan_json *)

\* the outermost JSON object of the response validates against ActionPlan
Validates(txt) == ~TryBlock(txt).raised

Generating == result.op = "generate_action_plan_json"

\* C40: generate_action_plan_json calls the controller at most max_tries
\* times and never after it has returned or raised; a call whose response
\* validates returns the plan of that response; every call after the first
\* is made with a prompt that holds the error of the response before it; and
\* ValueError is raised when max_tries responses have failed, and only then
C40_RetriesUntilValid ==
    /\ [](Generating =>
            /\ result.calls <= result.max_tries
            /\ result.at = "raised" =>
                   /\ result.calls = result.max_tries
                   /\ result.value.exception = "ValueError"
                   /\ result.calls > 0 => ~Validates(result.last_txt)
            /\ result.at = "returned" =>
                   /\ Validates(result.last_txt)
                   /\ result.value = TryBlock(result.last_txt).value)
    /\ [][Generating /\ result'.calls = result.calls + 1 =>
            /\ result.at = "loop"
            /\ result.calls > 0 =>
                   /\ ~Validates(result.last_txt)
                   /\ "previous_output_was_invalid" \in DOMAIN result.prompt
                   /\ result.prompt.previous_output_was_invalid
                          = TryBlock(result.last_txt).error
            /\ result'.at = (IF Validates(result'.last_txt) THEN "returned"
                             ELSE IF result'.calls = result.max_tries
                             THEN "raised" ELSE "loop")]_vars

\* a plan has been returned by the third call, after a response with no
\* object and a response whose object was no plan
C40_Witness ==
    /\ Generating
    /\ result.at = "returned"
    /\ result.calls = 3
    /\ result.value.action_plan # <<>>
    /\ Len(result.last_txt) = 2
    /\ result.prompt = RetryPrompt("action_plan: field required")

====
